---- MODULE Spec2Model ----
(***************************************************************************)
(* ZionLayer node: the Ledger (core/state StateDB), the Admission Pool     *)
(* (core/mempool Pool, core/transaction Tx), the Execution Engine (vm AVM) *)
(* and the block producer (consensus ZionBFT).                             *)
(*                                                                         *)
(* The specifications share the variables:                                 *)
(*   Spec        calls on the Ledger and on AVM.ApplyTransaction           *)
(*   PoolSpec    calls on the Pool, and a consumer that applies a popped   *)
(*               batch to the Ledger in the order Pop returned it          *)
(*   EngineSpec  the ZionBFT engine with its production loop, the feeder   *)
(*               of cmd/ziond and concurrent callers                       *)
(*   EngineLive  EngineSpec with the proposer goroutine scheduled fairly   *)
(*   VmSpec      one call of AVM.Execute on an instruction stream          *)
(*   PowerSpec   calls of ZionBFT.AddValidator and ZionBFT.VotingPower     *)
(*   ConcSpec    goroutines in the Ledger's mutators, statement by         *)
(*               statement, and a goroutine that calls Snapshot            *)
(*   ReplaySpec  two nodes that apply the same transactions to equal       *)
(*               ledgers                                                   *)
(*   GasSpec     calls of ExecutionContext.UseGas and GasLeft              *)
(*   RewardSpec  the production loop and a concurrent Transfer             *)
(*   AliasSpec   a caller that holds the Account GetAccount returned       *)
(*   StopLive    EngineLive with a select that takes its quit case         *)
(*   StackSpec   AVM.Execute taken iteration by iteration of its loop      *)
(***************************************************************************)
EXTENDS Integers, Sequences, FiniteSets, TLC

VARIABLES
    accounts,   \* StateDB.accounts: address -> [Balance, Nonce]
    agents,     \* StateDB.agents: DID.ID -> AgentRecord
    messages,   \* StateDB.messages: the message log
    ctx,        \* the ExecutionContext handed to the last AVM call
    pool,       \* Pool.txs: hash -> Tx
    batch,      \* the transactions returned by the last Pop and not yet applied
    results,    \* what ApplyTransaction returned for the applied part of the batch
    validators, \* ZionBFT.validators: address -> Validator
    height,     \* ZionBFT.height
    tip,        \* ZionBFT.tip: << >> is the nil pointer, <<b>> points to b
    blockCh,    \* ZionBFT.blockCh: the buffered announcement channel
    blockChClosed, \* ZionBFT.blockCh is closed
    quit,       \* ZionBFT.quitCh is closed
    txFeed,     \* the channel of batches handed to Start
    loop,       \* the proposer goroutine: its position and its locals
    produced,   \* history: every block the loop built, in order
    clock,      \* time.Now(), in ticks
    crashed,    \* the process died of an unrecovered panic
    last,       \* history: the last call, its arguments and what it returned
    calls,      \* number of calls made so far
    mu,         \* StateDB.mu: the goroutine that holds the write lock, or ""
    writers,    \* the goroutines that call the ledger's mutators: position, locals
    begun,      \* history: the mutators called so far
    replay,     \* a second node and the transactions both nodes are to apply
    held,       \* the *Account a caller got from GetAccount and still holds
    avm         \* AVM.Execute as it runs: code, pc, stack, and what it returned

vars == <<accounts, agents, messages, ctx, pool, batch, results, validators,
          height, tip, blockCh, blockChClosed, quit, txFeed, loop, produced,
          clock, crashed, last, calls, mu, writers, begun, replay, held, avm>>

ledgerVars == <<accounts, agents, messages>>
lockVars == <<mu, writers, begun>>
auxVars == <<replay, held, avm>>
poolVars == <<pool, batch, results>>
engineVars == <<validators, height, tip, blockCh, blockChClosed, quit, txFeed,
                loop, produced, clock, crashed>>

----------------------------------------------------------------------------
(* Bounds of the model.                                                    *)

\* Calls made in one behaviour of Spec.
MaxCalls == 3

\* Calls made in one behaviour of PoolSpec.
MaxPoolCalls == 6

\* Stands for MaxPoolSize = 10,000, the capacity of the pool.
MaxPoolSize == 3

\* Opcodes of an instruction stream handed to Execute in VmSpec.
MaxCode == 3

\* Calls of the ledger's mutators made in one behaviour of ConcSpec.
MaxConcCalls == 3

\* Transactions replayed by the two nodes of ReplaySpec.
MaxReplay == 3

\* Blocks built in one behaviour of EngineSpec.
MaxHeight == 3

\* Stands for 64, the capacity of the announcement channel blockCh.
BlockChCap == 2

\* Stands for 10, the capacity of the channel of batches of cmd/ziond.
TxFeedCap == 1

\* Stands for 100, the batch size the feeder of cmd/ziond pops.
FeedBatch == 2

\* Stands for 10^18 (base units per ZIO), which is beyond TLC's integers.
BaseUnit == 10

\* Stands for 2^64, the modulus of uint64 arithmetic, beyond TLC's integers.
Uint64Mod == 1048576

----------------------------------------------------------------------------
(* Values.                                                                 *)

Addrs == {"A", "B"}

\* The amounts passed to Transfer and SetBalance.
Amounts == {-1, 0, 1, 2}

Min(a, b) == IF a < b THEN a ELSE b

RECURSIVE SumOver(_, _)
SumOver(f, S) ==
    IF S = {} THEN 0
    ELSE LET x == CHOOSE y \in S : TRUE
         IN  f[x].Balance + SumOver(f, S \ {x})

\* Sum of the balances of the stored accounts.
SumBalances(acc) == SumOver(acc, DOMAIN acc)

\* The balance GetAccount reports for an address.
BalanceOf(acc, a) == IF a \in DOMAIN acc THEN acc[a].Balance ELSE 0

NonceOf(acc, a) == IF a \in DOMAIN acc THEN acc[a].Nonce ELSE 0

----------------------------------------------------------------------------
(* core/state: the Ledger.  An operation takes the ledger                  *)
(* L = [accounts, agents, messages] and yields the ledger it leaves and    *)
(* what it returns.  Every *big.Int handed in is non-nil.                  *)

Ledger(acc, ag, msgs) == [accounts |-> acc, agents |-> ag, messages |-> msgs]

\* NewStateDB: no account, no agent, no message.
NewStateDB == Ledger(<<>>, <<>>, <<>>)

NewAccount == [Balance |-> 0, Nonce |-> 0]

\* StateDB.getOrCreate: the account map with addr stored.
getOrCreate(acc, addr) ==
    IF addr \in DOMAIN acc THEN acc ELSE acc @@ (addr :> NewAccount)

\* A lookup whose default is the zero Account, with no address.
GetAccountZero(L, addr) ==
    IF addr \in DOMAIN L.accounts
    THEN [Address |-> addr, Balance |-> L.accounts[addr].Balance,
          Nonce |-> L.accounts[addr].Nonce, stored |-> TRUE]
    ELSE [Address |-> "", Balance |-> 0, Nonce |-> 0, stored |-> FALSE]

\* StateDB.GetAccount: the stored account itself (shared with the ledger), or
\* a fresh zero account that is not stored.
GetAccount(L, addr) ==
    IF addr \in DOMAIN L.accounts
    THEN [Address |-> addr, Balance |-> L.accounts[addr].Balance,
          Nonce |-> L.accounts[addr].Nonce, stored |-> TRUE]
    ELSE [Address |-> addr, Balance |-> 0, Nonce |-> 0, stored |-> FALSE]

\* StateDB.SetBalance.
SetBalance(L, addr, balance) ==
    LET a1 == getOrCreate(L.accounts, addr)
    IN  [st |-> [L EXCEPT !.accounts = [a1 EXCEPT ![addr].Balance = balance]],
         err |-> "nil"]

\* Transfer with src and dst held as copies of the accounts instead of
\* pointers into the map: the two writes do not see each other.
TransferCopies(L, from, to, value) ==
    LET a1 == getOrCreate(L.accounts, from)
    IN  IF a1[from].Balance < value
        THEN [st |-> [L EXCEPT !.accounts = a1], err |-> "ErrInsufficientBalance"]
        ELSE LET a2 == getOrCreate(a1, to)
                 a3 == [a2 EXCEPT ![from].Balance = a2[from].Balance - value]
                 a4 == [a3 EXCEPT ![to].Balance = a2[to].Balance + value]
             IN  [st |-> [L EXCEPT !.accounts = a4], err |-> "nil"]

\* Transfer with the balance check off by one (<= for <).
TransferStrict(L, from, to, value) ==
    LET a1 == getOrCreate(L.accounts, from)
    IN  IF a1[from].Balance <= value
        THEN [st |-> [L EXCEPT !.accounts = a1], err |-> "ErrInsufficientBalance"]
        ELSE LET a2 == getOrCreate(a1, to)
                 a3 == [a2 EXCEPT ![from].Balance = @ - value]
                 a4 == [a3 EXCEPT ![to].Balance = @ + value]
             IN  [st |-> [L EXCEPT !.accounts = a4], err |-> "nil"]

\* StateDB.Transfer.  src and dst are pointers into the map: when from = to
\* the Sub and the Add act on the same balance.
Transfer(L, from, to, value) ==
    LET a1 == getOrCreate(L.accounts, from)
    IN  IF a1[from].Balance < value
        THEN [st |-> [L EXCEPT !.accounts = a1], err |-> "ErrInsufficientBalance"]
        ELSE LET a2 == getOrCreate(a1, to)
                 a3 == [a2 EXCEPT ![from].Balance = @ - value]
                 a4 == [a3 EXCEPT ![to].Balance = @ + value]
             IN  [st |-> [L EXCEPT !.accounts = a4], err |-> "nil"]

\* The zero value of transaction.AgentDID.
ZeroDID == [ID |-> "", Controller |-> ""]

\* A RegisterAgent that writes the record whether or not the identifier is
\* registered.
RegisterAgentOverwrites(L, did, blockHeight) ==
    [st |-> [L EXCEPT !.agents = (did.ID :>
                    [DID |-> did, RegisteredAt |-> blockHeight,
                     MessageCount |-> 0, Active |-> TRUE]) @@ @],
     err |-> IF did.ID \in DOMAIN L.agents THEN "ErrAgentAlreadyRegistered"
             ELSE "nil"]

\* StateDB.RegisterAgent.
RegisterAgent(L, did, blockHeight) ==
    IF did.ID \in DOMAIN L.agents
    THEN [st |-> L, err |-> "ErrAgentAlreadyRegistered"]
    ELSE [st |-> [L EXCEPT !.agents = @ @@ (did.ID :>
                    [DID |-> did, RegisteredAt |-> blockHeight,
                     MessageCount |-> 0, Active |-> TRUE])],
          err |-> "nil"]

\* StateDB.GetAgent.
GetAgent(L, didID) ==
    IF didID \in DOMAIN L.agents
    THEN [rec |-> L.agents[didID], err |-> "nil"]
    ELSE [rec |-> "nil", err |-> "ErrAgentNotFound"]

\* The zero value of transaction.AgentMessage.
ZeroMsg == [From |-> "", To |-> "", Type |-> "", Nonce |-> 0]

\* A StoreMessage that counts nothing.
StoreMessageNoCount(L, msg) ==
    [st |-> [L EXCEPT !.messages = Append(@, msg)], err |-> "nil"]

\* StateDB.StoreMessage.
StoreMessage(L, msg) ==
    [st |-> [L EXCEPT !.messages = Append(@, msg),
                      !.agents = IF msg.From \in DOMAIN @
                                 THEN [@ EXCEPT ![msg.From].MessageCount =
                                          (@ + 1) % Uint64Mod]
                                 ELSE @],
     err |-> "nil"]

\* StateDB.Snapshot: the accounts and the agents (the message log is not
\* part of it).
Snapshot(L) == [Accounts |-> L.accounts, Agents |-> L.agents]

----------------------------------------------------------------------------
(* core/transaction: Tx.                                                   *)

TxTransfer == 0
TxAgentRegister == 1
TxAgentMessage == 2
TxAgentDelegate == 3
TxDeployContract == 4
TxCallContract == 5
TxInferenceReceipt == 6
TxValidatorStake == 7
TxValidatorUnstake == 8

Tx(type, from, to, value, gas, gasPrice, nonce, data, sig) ==
    [Type |-> type, From |-> from, To |-> to, Value |-> value, Gas |-> gas,
     GasPrice |-> gasPrice, Nonce |-> nonce, Data |-> data, Signature |-> sig]

\* NewTransferTx.
NewTransferTx(from, to, value, nonce, gasPrice) ==
    Tx(TxTransfer, from, to, value, 21000, gasPrice, nonce, "null", "")

\* json.Marshal of an AgentDID: the text that carries its fields.
MarshalDID(did) ==
    "{\"id\":\"" \o did.ID \o "\",\"controller\":\"" \o did.Controller \o "\"}"

NewAgentRegisterTx(from, did, nonce, gasPrice) ==
    Tx(TxAgentRegister, from, "", 0, 200000, gasPrice, nonce, MarshalDID(did), "")

\* Tx.Hash with the signature left in the hashed copy.
HashWithSignature(tx) ==
    <<tx.Type, tx.From, tx.To, tx.Value, tx.Gas, tx.GasPrice, tx.Nonce, tx.Data,
      tx.Signature>>

\* Tx.Hash: SHA-256 of the JSON encoding of a copy of the transaction whose
\* signature is nil.  The hash stands for the encoded fields: one value per
\* content, none of it from the signature.
Hash(tx) ==
    <<tx.Type, tx.From, tx.To, tx.Value, tx.Gas, tx.GasPrice, tx.Nonce, tx.Data>>

----------------------------------------------------------------------------
(* core/mempool: the Admission Pool, a map from hash to transaction.       *)

NewPool == <<>>

\* Pool.Size.
Size(P) == Cardinality(DOMAIN P)

\* An Add with no capacity check.
AddUnbounded(P, tx) ==
    IF Hash(tx) \in DOMAIN P THEN [pool |-> P, err |-> "ErrDuplicateTx"]
    ELSE [pool |-> P @@ (Hash(tx) :> tx), err |-> "nil"]

\* Pool.Add.
Add(P, tx) ==
    IF Size(P) >= MaxPoolSize THEN [pool |-> P, err |-> "ErrPoolFull"]
    ELSE IF Hash(tx) \in DOMAIN P THEN [pool |-> P, err |-> "ErrDuplicateTx"]
    ELSE [pool |-> P @@ (Hash(tx) :> tx), err |-> "nil"]

\* An ascending comparison.
LessAscending(a, b) == a.GasPrice < b.GasPrice

\* The less function handed to sort.Slice in Pop.
Less(a, b) == a.GasPrice > b.GasPrice

\* The orders in which ranging over the map can fill the slice `all`.
MapOrders(P) ==
    {s \in [1..Size(P) -> DOMAIN P] : \A i, j \in 1..Size(P) : i # j => s[i] # s[j]}

\* What sort.Slice can leave in `all`: the map is ranged over in any order
\* and the sort is not stable, so every order in which no element is less
\* than one before it.
SortedOrders(P) ==
    {[i \in 1..Size(P) |-> P[s[i]]] : s \in
        {o \in MapOrders(P) : \A i, j \in 1..Size(P) : i < j => ~Less(P[o[j]], P[o[i]])}}

\* A Pop that leaves the returned transactions in the pool.
PopKeeps(P, n) ==
    {[pool |-> P, selected |-> SubSeq(all, 1, IF n > Len(all) THEN Len(all) ELSE n)]
     : all \in SortedOrders(P)}

\* Pool.Pop for n >= 0: the outcomes, each the pool left and the slice
\* returned.
Pop(P, n) ==
    {LET m == IF n > Len(all) THEN Len(all) ELSE n
         selected == SubSeq(all, 1, m)
         gone == {Hash(selected[i]) : i \in 1..m}
     IN  [pool |-> [h \in DOMAIN P \ gone |-> P[h]], selected |-> selected]
     : all \in SortedOrders(P)}

----------------------------------------------------------------------------
(* vm: the execution context and AVM.ApplyTransaction.                     *)

GasTransfer == 21000
GasAgentRegister == 200000
GasAgentMessage == 50000
GasInferenceReceipt == 100000

Context(gasLimit, gasUsed, h) ==
    [GasLimit |-> gasLimit, GasUsed |-> gasUsed, Height |-> h]

\* ExecutionContext.GasLeft.
GasLeft(c) == IF c.GasUsed >= c.GasLimit THEN 0 ELSE c.GasLimit - c.GasUsed

\* ExecutionContext.UseGas: the sum is a uint64 sum.
UseGas(c, amount) ==
    IF (c.GasUsed + amount) % Uint64Mod > c.GasLimit
    THEN [ctx |-> c, err |-> "ErrOutOfGas"]
    ELSE [ctx |-> [c EXCEPT !.GasUsed = (@ + amount) % Uint64Mod], err |-> "nil"]

\* unmarshalJSON: decodes nothing, leaves the target v as it is and never
\* fails.
unmarshalJSON(data, v) == [v |-> v, err |-> "nil"]

\* AVM.ApplyTransaction: the context and the ledger it leaves, and what it
\* returns.
ApplyTransaction(c, L, tx) ==
    CASE tx.Type = TxTransfer ->
            LET g == UseGas(c, GasTransfer)
            IN  IF g.err # "nil" THEN [ctx |-> g.ctx, st |-> L, err |-> g.err]
                ELSE LET r == Transfer(L, tx.From, tx.To, tx.Value)
                     IN  [ctx |-> g.ctx, st |-> r.st, err |-> r.err]
      [] tx.Type = TxAgentRegister ->
            LET g == UseGas(c, GasAgentRegister)
                d == unmarshalJSON(tx.Data, ZeroDID)
            IN  IF g.err # "nil" THEN [ctx |-> g.ctx, st |-> L, err |-> g.err]
                ELSE IF d.err # "nil" THEN [ctx |-> g.ctx, st |-> L, err |-> d.err]
                ELSE LET r == RegisterAgent(L, d.v, g.ctx.Height)
                     IN  [ctx |-> g.ctx, st |-> r.st, err |-> r.err]
      [] tx.Type = TxAgentMessage ->
            LET g == UseGas(c, GasAgentMessage)
                d == unmarshalJSON(tx.Data, ZeroMsg)
            IN  IF g.err # "nil" THEN [ctx |-> g.ctx, st |-> L, err |-> g.err]
                ELSE IF d.err # "nil" THEN [ctx |-> g.ctx, st |-> L, err |-> d.err]
                ELSE [ctx |-> g.ctx, st |-> StoreMessage(L, d.v).st, err |-> "nil"]
      [] tx.Type = TxInferenceReceipt ->
            LET g == UseGas(c, GasInferenceReceipt)
            IN  [ctx |-> g.ctx, st |-> L, err |-> g.err]
      [] OTHER -> [ctx |-> c, st |-> L, err |-> "ErrInvalidOpcode"]

\* vm: the opcodes of the instruction stream.
OpStop == 0
OpAgentRegister == 16
OpAgentSend == 17
OpAgentDelegate == 18
OpInferProve == 32
OpInferVerify == 33
OpTokenTransfer == 48
OpReturn == 243
OpRevert == 253

\* A []byte value is <<bytes>>, the nil slice is << >>.
NoBytes == <<>>

\* AVM.registerBuiltins: the opcodes that have a precompile.
Precompiles == {OpAgentRegister, OpAgentSend, OpInferProve}

\* AVM.registerBuiltins: the precompile of opcode op, run in context c on
\* ledger L with argument args; result is what it returns.
Precompile(op, c, L, args) ==
    CASE op = OpAgentRegister ->
            LET g == UseGas(c, GasAgentRegister)
                d == unmarshalJSON(args, ZeroDID)
            IN  IF g.err # "nil"
                THEN [ctx |-> g.ctx, st |-> L, result |-> NoBytes, err |-> g.err]
                ELSE IF d.err # "nil"
                THEN [ctx |-> g.ctx, st |-> L, result |-> NoBytes, err |-> d.err]
                ELSE LET r == RegisterAgent(L, d.v, g.ctx.Height)
                     IN  [ctx |-> g.ctx, st |-> r.st, result |-> NoBytes,
                          err |-> r.err]
      [] op = OpAgentSend ->
            LET g == UseGas(c, GasAgentMessage)
                d == unmarshalJSON(args, ZeroMsg)
            IN  IF g.err # "nil"
                THEN [ctx |-> g.ctx, st |-> L, result |-> NoBytes, err |-> g.err]
                ELSE IF d.err # "nil"
                THEN [ctx |-> g.ctx, st |-> L, result |-> NoBytes, err |-> d.err]
                ELSE [ctx |-> g.ctx, st |-> StoreMessage(L, d.v).st,
                      result |-> NoBytes, err |-> "nil"]
      [] op = OpInferProve ->
            LET g == UseGas(c, GasInferenceReceipt)
            IN  IF g.err # "nil"
                THEN [ctx |-> g.ctx, st |-> L, result |-> NoBytes, err |-> g.err]
                ELSE [ctx |-> g.ctx, st |-> L, result |-> <<<<1>>>>,
                      err |-> "nil"]

\* A switch whose Return does not look at the height of the stack.
StructuralUnchecked(op, stack) ==
    CASE op = OpStop -> [out |-> NoBytes, err |-> "nil"]
      [] op = OpReturn ->
            IF stack = <<>> THEN [out |-> NoBytes, err |-> "nil"]
            ELSE [out |-> <<stack[Len(stack)]>>, err |-> "nil"]
      [] op = OpRevert -> [out |-> NoBytes, err |-> "ErrExecutionReverted"]
      [] OTHER -> [out |-> NoBytes, err |-> "ErrInvalidOpcode"]

\* AVM.Execute, the switch on an opcode that has no precompile: each case
\* returns.
Structural(op, stack) ==
    CASE op = OpStop -> [out |-> NoBytes, err |-> "nil"]
      [] op = OpReturn ->
            IF stack = <<>> THEN [out |-> NoBytes, err |-> "ErrStackUnderflow"]
            ELSE [out |-> <<stack[Len(stack)]>>, err |-> "nil"]
      [] op = OpRevert -> [out |-> NoBytes, err |-> "ErrExecutionReverted"]
      [] OTHER -> [out |-> NoBytes, err |-> "ErrInvalidOpcode"]

\* AVM.Execute, the loop from position pc (counted from 1) with the operand
\* stack, the context and the ledger as they stand; steps are the opcodes
\* fetched so far, and stack is the operand stack when the loop returns.
RECURSIVE ExecuteFrom(_, _, _, _, _, _)
ExecuteFrom(code, pc, stack, c, L, steps) ==
    IF pc > Len(code)
    THEN [ctx |-> c, st |-> L, out |-> NoBytes, err |-> "nil", steps |-> steps,
          stack |-> stack]
    ELSE LET op == code[pc]
             fetched == Append(steps, op)
         IN  IF op \in Precompiles
             THEN LET args == IF stack # <<>> THEN <<stack[Len(stack)]>>
                              ELSE NoBytes
                      rest == IF stack # <<>> THEN SubSeq(stack, 1, Len(stack) - 1)
                              ELSE stack
                      r == Precompile(op, c, L, args)
                  IN  IF r.err # "nil"
                      THEN [ctx |-> r.ctx, st |-> r.st, out |-> NoBytes,
                            err |-> r.err, steps |-> fetched, stack |-> rest]
                      ELSE ExecuteFrom(code, pc + 1,
                                       IF r.result # NoBytes
                                       THEN Append(rest, r.result[1]) ELSE rest,
                                       r.ctx, r.st, fetched)
             ELSE LET r == Structural(op, stack)
                  IN  [ctx |-> c, st |-> L, out |-> r.out, err |-> r.err,
                       steps |-> fetched, stack |-> stack]

\* AVM.Execute: the context and the ledger it leaves, what it returns, the
\* opcodes it fetched and the operand stack it ended with.
Execute(c, L, code) == ExecuteFrom(code, 1, <<>>, c, L, <<>>)

----------------------------------------------------------------------------
(* core/block and consensus: blocks, validators, the engine.               *)

\* A *block.Block is <<b>>, the nil pointer is << >>.
NoBlock == <<>>
Ptr(b) == <<b>>
Deref(t) == t[1]

\* The zero [32]byte.
ZeroHash == <<>>

\* block.NewBlock at time now; the roots and the signature stay zero.
NewBlock(h, prevHash, validatorAddr, txs, now) ==
    [Header |-> [Version |-> 1, Height |-> h, Timestamp |-> now,
                 PrevHash |-> prevHash, ValidatorAddr |-> validatorAddr],
     Txs |-> txs]

\* Block.Hash: SHA-256 of the JSON encoding of the header.  The hash stands
\* for the encoded header fields; the transactions are not part of it.
BlockHash(b) ==
    <<b.Header.Version, b.Header.Height, b.Header.Timestamp, b.Header.PrevHash,
      b.Header.ValidatorAddr>>

\* block.GenesisBlock.
GenesisBlock == NewBlock(0, ZeroHash, "", <<>>, 0)

MinValidatorStake == 10000

\* The minimum stake of AddValidator: MinValidatorStake x 10^18.
MinStake == MinValidatorStake * BaseUnit

\* A registry that admits any stake.
AddValidatorAny(V, v) ==
    [validators |-> [a \in DOMAIN V \cup {v.Address} |->
                       IF a = v.Address THEN v ELSE V[a]],
     err |-> "nil"]

\* ZionBFT.AddValidator on the registry V.
AddValidator(V, v) ==
    IF v.Stake < MinStake
    THEN [validators |-> V, err |-> "stake below minimum"]
    ELSE [validators |-> [a \in DOMAIN V \cup {v.Address} |->
                            IF a = v.Address THEN v ELSE V[a]],
          err |-> "nil"]

\* ZionBFT.ValidateBlock; e.tip.Hash() on a nil tip is a nil-pointer panic.
ValidateBlock(V, h, t, b) ==
    IF b.Header.ValidatorAddr \notin DOMAIN V THEN "ErrUnknownValidator"
    ELSE IF b.Header.Height # (h + 1) % Uint64Mod THEN "ErrInvalidBlock"
    ELSE IF t = NoBlock THEN "panic"
    ELSE IF b.Header.PrevHash # BlockHash(Deref(t)) THEN "ErrInvalidBlock"
    ELSE "nil"

\* A previous hash that is never filled in.
PrevHashUnset(t) == ZeroHash

\* runProposer: the previous hash of the block to build on tip t.
PrevHashOf(t) == IF t # NoBlock THEN BlockHash(Deref(t)) ELSE ZeroHash

\* big.Int.Int64: the low 64 bits of the magnitude as an int64, with the sign
\* of x.
ToInt64(x) ==
    LET low == (IF x < 0 THEN -x ELSE x) % Uint64Mod
        v == IF low >= Uint64Mod \div 2 THEN low - Uint64Mod ELSE low
    IN  IF x < 0 THEN -v ELSE v

\* int64(f) of a float64 f = x / 100: the fraction is cut off, towards zero.
TruncHundredths(x) == IF x >= 0 THEN x \div 100 ELSE -((-x) \div 100)

\* ZionBFT.VotingPower.  A PoIScore is held in hundredths, so PoIScore * 100
\* is held in ten-thousandths; the scores of the model are whole hundredths,
\* for which the float64 product is taken as exact.
VotingPower(v) ==
    LET stakeScore == ToInt64(v.Stake \div BaseUnit)
        poiBoost == TruncHundredths(v.PoIScore * 100)
    IN  stakeScore + poiBoost

----------------------------------------------------------------------------
(* consensus: the block reward.                                            *)

BlockReward == 5

\* The reward of applyBlockReward: BlockReward x 10^18.
Reward == BlockReward * BaseUnit

\* ZionBFT.applyBlockReward, run with no other ledger call in between its
\* GetAccount and its SetBalance.
applyBlockReward(L, validatorAddr) ==
    LET acc == GetAccount(L, validatorAddr)
    IN  SetBalance(L, validatorAddr, acc.Balance + Reward)

----------------------------------------------------------------------------
(* The state after construction: NewStateDB, NewPool, NewZionBFT.          *)

\* The proposer goroutine: where it is, the address it was started with,
\* the batch it received and the balance applyBlockReward read.
Loop(pc, addr, txs, bal) == [pc |-> pc, addr |-> addr, txs |-> txs, bal |-> bal]

\* The run of the last popped batch: the batch as Pop returned it, the
\* accounts at that time, and what ApplyTransaction returned so far.
Run(sel, pre, errs) == [sel |-> sel, pre |-> pre, errs |-> errs]

\* The current ledger.
Cur == Ledger(accounts, agents, messages)

SetLedger(L) ==
    /\ accounts' = L.accounts
    /\ agents' = L.agents
    /\ messages' = L.messages

Call(op, args, err, val) == [op |-> op, args |-> args, err |-> err, val |-> val]

InitLedger ==
    /\ accounts = NewStateDB.accounts
    /\ agents = NewStateDB.agents
    /\ messages = NewStateDB.messages
    /\ ctx = Context(0, 0, 0)

InitPool ==
    /\ pool = <<>>
    /\ batch = <<>>
    /\ results = Run(<<>>, <<>>, <<>>)

InitEngine ==
    /\ validators = <<>>
    /\ height = 0
    /\ tip = NoBlock
    /\ blockCh = <<>>
    /\ blockChClosed = FALSE
    /\ quit = FALSE
    /\ txFeed = <<>>
    /\ loop = Loop("idle", "", <<>>, 0)
    /\ produced = <<>>
    /\ clock = 0
    /\ crashed = FALSE

InitHistory ==
    /\ last = Call("new", <<>>, "nil", "nil")
    /\ calls = 0

\* The goroutines that call the ledger's mutators concurrently.
Writers == {"w1", "w2"}

\* A goroutine outside any call.
Idle == [pc |-> "idle", op |-> "", args |-> <<>>, err |-> "nil", pre |-> NewStateDB]

InitLock ==
    /\ mu = ""
    /\ writers = [w \in Writers |-> Idle]
    /\ begun = {}

\* A *Account is <<a>>, the nil pointer is << >>.
NoAccount == <<>>

\* The transactions to replay, how many of them this node has applied and
\* what it returned, and the other node: its ledger, its context, how many
\* it has applied and what it returned.
Replay(log, done, errs, other) ==
    [log |-> log, done |-> done, errs |-> errs, other |-> other]

Node(st, c, done, errs) == [st |-> st, ctx |-> c, done |-> done, errs |-> errs]

\* AVM.Execute as it runs: the stream, the position pc of the next opcode
\* (counted from 1), the operand stack, whether the call is running or has
\* returned, what it returned, and the context it was handed.
NewRun(code, c) ==
    [code |-> code, pc |-> 1, stack |-> <<>>, status |-> "running",
     out |-> <<>>, err |-> "nil", start |-> c]

\* No call of Execute yet.
NoRun ==
    [code |-> <<>>, pc |-> 0, stack |-> <<>>, status |-> "idle",
     out |-> <<>>, err |-> "nil", start |-> [GasLimit |-> 0, GasUsed |-> 0, Height |-> 0]]


InitAux ==
    /\ replay = Replay(<<>>, 0, <<>>, Node(NewStateDB, Context(0, 0, 0), 0, <<>>))
    /\ held = NoAccount
    /\ avm = NoRun

----------------------------------------------------------------------------
(* Spec: callers of the Ledger and of AVM.ApplyTransaction, one call at a  *)
(* time.                                                                   *)

\* Identities handed to RegisterAgent: two with the same identifier and
\* different content, one with another identifier.
DIDs ==
    {[ID |-> "did:agc:0xabc", Controller |-> "A"],
     [ID |-> "did:agc:0xabc", Controller |-> "B"],
     [ID |-> "did:agc:0xdef", Controller |-> "A"]}

DIDIds == {"did:agc:0xabc", "did:agc:0xdef", ""}

Msgs ==
    {[From |-> "did:agc:0xabc", To |-> "did:agc:0xdef", Type |-> "TASK", Nonce |-> 0],
     [From |-> "did:agc:0xdef", To |-> "did:agc:0xabc", Type |-> "RESULT", Nonce |-> 0]}

Heights == {1, 2}

\* Gas limits and gas already used of the contexts handed to
\* ApplyTransaction: around the fixed costs.
GasLimits == {20999, 21000, 200000}
GasUseds == {0, 1}

\* The transactions handed to ApplyTransaction: transfers between the
\* addresses (also to oneself, also of a negative amount) that declare the
\* gas of NewTransferTx, one that declares less, two registrations of
\* different identifiers, one transaction of each other handled type, and
\* one of a type with no handler.
SpecTxs ==
    {Tx(TxTransfer, f, t, v, 21000, 1, 0, "null", "") :
        f \in Addrs, t \in Addrs, v \in {-1, 1}}
    \cup
    {Tx(TxTransfer, "A", "B", 1, 100, 1, 0, "null", ""),
     NewAgentRegisterTx("A", [ID |-> "did:agc:0xabc", Controller |-> "A"], 0, 1),
     NewAgentRegisterTx("A", [ID |-> "did:agc:0xdef", Controller |-> "A"], 0, 1),
     Tx(TxAgentRegister, "A", "", 0, 100, 1, 0, "null", ""),
     Tx(TxAgentMessage, "A", "", 0, 50000, 1, 0, "null", ""),
     Tx(TxInferenceReceipt, "A", "", 0, 100000, 1, 0, "null", ""),
     Tx(TxCallContract, "A", "B", 0, 100000, 1, 0, "null", "")}

\* One call of a caller of Spec.
SpecCall ==
    /\ calls < MaxCalls
    /\ calls' = calls + 1
    /\ UNCHANGED <<poolVars, engineVars, lockVars, auxVars>>

DoTransfer ==
    /\ SpecCall
    /\ \E from \in Addrs, to \in Addrs, value \in Amounts :
        LET r == Transfer(Cur, from, to, value)
        IN  /\ SetLedger(r.st)
            /\ last' = Call("Transfer", <<from, to, value>>, r.err, "nil")
            /\ UNCHANGED ctx

DoSetBalance ==
    /\ SpecCall
    /\ \E addr \in Addrs, balance \in Amounts :
        LET r == SetBalance(Cur, addr, balance)
        IN  /\ SetLedger(r.st)
            /\ last' = Call("SetBalance", <<addr, balance>>, r.err, "nil")
            /\ UNCHANGED ctx

DoGetAccount ==
    /\ SpecCall
    /\ \E addr \in Addrs :
        /\ last' = Call("GetAccount", <<addr>>, "nil", GetAccount(Cur, addr))
        /\ UNCHANGED <<ledgerVars, ctx>>

DoRegisterAgent ==
    /\ SpecCall
    /\ \E did \in DIDs, h \in Heights :
        LET r == RegisterAgent(Cur, did, h)
        IN  /\ SetLedger(r.st)
            /\ last' = Call("RegisterAgent", <<did, h>>, r.err, "nil")
            /\ UNCHANGED ctx

DoGetAgent ==
    /\ SpecCall
    /\ \E id \in DIDIds :
        LET r == GetAgent(Cur, id)
        IN  /\ last' = Call("GetAgent", <<id>>, r.err, r.rec)
            /\ UNCHANGED <<ledgerVars, ctx>>

DoStoreMessage ==
    /\ SpecCall
    /\ \E msg \in Msgs :
        LET r == StoreMessage(Cur, msg)
        IN  /\ SetLedger(r.st)
            /\ last' = Call("StoreMessage", <<msg>>, r.err, "nil")
            /\ UNCHANGED ctx

DoSnapshot ==
    /\ SpecCall
    /\ last' = Call("Snapshot", <<>>, "nil", Snapshot(Cur))
    /\ UNCHANGED <<ledgerVars, ctx>>

DoApplyTransaction ==
    /\ SpecCall
    /\ \E tx \in SpecTxs, gl \in GasLimits, gu \in GasUseds, h \in Heights :
        LET c == Context(gl, gu, h)
            r == ApplyTransaction(c, Cur, tx)
        IN  /\ SetLedger(r.st)
            /\ ctx' = r.ctx
            /\ last' = Call("ApplyTransaction", <<c, tx>>, r.err, "nil")

DoBlockReward ==
    /\ SpecCall
    /\ \E addr \in Addrs :
        LET r == applyBlockReward(Cur, addr)
        IN  /\ SetLedger(r.st)
            /\ last' = Call("applyBlockReward", <<addr>>, r.err, "nil")
            /\ UNCHANGED ctx

Init == InitLedger /\ InitPool /\ InitEngine /\ InitHistory /\ InitLock /\ InitAux

Next ==
    \/ DoTransfer
    \/ DoSetBalance
    \/ DoGetAccount
    \/ DoRegisterAgent
    \/ DoGetAgent
    \/ DoStoreMessage
    \/ DoSnapshot
    \/ DoApplyTransaction
    \/ DoBlockReward

Spec == Init /\ [][Next]_vars

----------------------------------------------------------------------------
(* PoolSpec: callers of the Pool, and a consumer that applies the popped   *)
(* batch to the Ledger, transaction after transaction from its head, each  *)
(* in a fresh context whose gas limit is the transaction's.  Account A was *)
(* funded with 1000.                                                       *)

T_AB == [NewTransferTx("A", "B", 300, 0, 5) EXCEPT !.Signature = "sig1"]
T_AC == [NewTransferTx("A", "C", 900, 1, 10) EXCEPT !.Signature = "sig1"]

\* The transactions submitted: the two above, the first with another
\* signature, one with the gas price of the first, one with a price between.
PoolTxs ==
    {T_AB, T_AC,
     [T_AB EXCEPT !.Signature = "sig2"],
     [NewTransferTx("B", "C", 100, 0, 5) EXCEPT !.Signature = "sig1"],
     [NewTransferTx("C", "A", 100, 0, 7) EXCEPT !.Signature = "sig1"]}

BatchSizes == 0..2

PoolCall ==
    /\ calls < MaxPoolCalls
    /\ calls' = calls + 1
    /\ UNCHANGED <<engineVars, lockVars, auxVars>>

\* Pool.Add; val tells whether the content was in the pool before the call.
PoolAdd ==
    /\ PoolCall
    /\ \E tx \in PoolTxs :
        LET r == Add(pool, tx)
        IN  /\ pool' = r.pool
            /\ last' = Call("Add", <<tx>>, r.err,
                            \E h \in DOMAIN pool : Hash(pool[h]) = Hash(tx))
    /\ UNCHANGED <<ledgerVars, ctx, batch, results>>

PoolPop ==
    /\ PoolCall
    /\ \E n \in BatchSizes : \E o \in Pop(pool, n) :
        /\ pool' = o.pool
        /\ batch' = o.selected
        /\ results' = Run(o.selected, accounts, <<>>)
        /\ last' = Call("Pop", <<n>>, "nil", o.selected)
    /\ UNCHANGED <<ledgerVars, ctx>>

PoolSize ==
    /\ PoolCall
    /\ last' = Call("Size", <<>>, "nil", Size(pool))
    /\ UNCHANGED <<ledgerVars, ctx, poolVars>>

PoolApplyNext ==
    /\ PoolCall
    /\ batch # <<>>
    /\ LET tx == Head(batch)
           c == Context(tx.Gas, 0, 1)
           r == ApplyTransaction(c, Cur, tx)
       IN  /\ SetLedger(r.st)
           /\ ctx' = r.ctx
           /\ batch' = Tail(batch)
           /\ results' = [results EXCEPT !.errs = Append(@, r.err)]
           /\ last' = Call("ApplyTransaction", <<c, tx>>, r.err, "nil")
    /\ UNCHANGED pool

PoolInit ==
    /\ accounts = SetBalance(NewStateDB, "A", 1000).st.accounts
    /\ agents = NewStateDB.agents
    /\ messages = NewStateDB.messages
    /\ ctx = Context(0, 0, 0)
    /\ InitPool /\ InitEngine /\ InitHistory /\ InitLock /\ InitAux

PoolNext ==
    \/ PoolAdd
    \/ PoolPop
    \/ PoolSize
    \/ PoolApplyNext

PoolSpec == PoolInit /\ [][PoolNext]_vars

----------------------------------------------------------------------------
(* Claims on the Pool, checked under PoolSpec.                             *)

\* Two transactions with the same content: they differ at most in the
\* signature.
SameContent(t1, t2) == [t1 EXCEPT !.Signature = ""] = [t2 EXCEPT !.Signature = ""]

PoolContents(P) == {P[h] : h \in DOMAIN P}

\* C9: with balance(A) = 1000 and the pool holding Transfer(A->B, 300, gas
\* price 5) and Transfer(A->C, 900, gas price 10), Pop(2) returns
\* [A->C, A->B]; applying the batch in the order Pop returned it, A->C
\* succeeds and A->B fails with InsufficientBalance, and the balances end as
\* A = 100, C = 900, B = 0.
C9_OrderDependent ==
    [][/\ (/\ PoolContents(pool) = {T_AB, T_AC}
           /\ last'.op = "Pop"
           /\ last'.args[1] = 2)
          => last'.val = <<T_AC, T_AB>>
       /\ (/\ results'.sel = <<T_AC, T_AB>>
           /\ results'.pre = ("A" :> [Balance |-> 1000, Nonce |-> 0])
           /\ Len(results'.errs) = 2)
          => /\ results'.errs = <<"nil", "ErrInsufficientBalance">>
             /\ BalanceOf(accounts', "A") = 100
             /\ BalanceOf(accounts', "C") = 900
             /\ BalanceOf(accounts', "B") = 0]_vars

\* C9 witness: the batch [A->C, A->B] popped at balance(A) = 1000 has been
\* applied, A->B last.
C9_Witness ==
    /\ results.sel = <<T_AC, T_AB>>
    /\ results.pre = ("A" :> [Balance |-> 1000, Nonce |-> 0])
    /\ Len(results.errs) = 2
    /\ last.op = "ApplyTransaction"
    /\ last.args[2] = T_AB

\* Two consecutive Add calls of the same content, which was not in the pool
\* before the first.
TwoAdds ==
    /\ last.op = "Add"
    /\ last'.op = "Add"
    /\ SameContent(last.args[1], last'.args[1])
    /\ last.val = FALSE

\* C10 as stated: of two consecutive Add calls of the same content, the
\* first returns ok or PoolFull and the second returns DuplicateTransaction
\* and leaves the pool unchanged.
C10_Original ==
    [][TwoAdds =>
        /\ last.err \in {"nil", "ErrPoolFull"}
        /\ last'.err = "ErrDuplicateTx"
        /\ pool' = pool]_vars

\* C10 amended: of two consecutive Add calls of the same content (the
\* signatures may differ), the first returns ok or PoolFull; the second
\* returns DuplicateTransaction when the first returned ok and the pool is
\* not full after it, and PoolFull otherwise; the second leaves the pool
\* unchanged.
C10_AddTwice ==
    [][TwoAdds =>
        /\ last.err \in {"nil", "ErrPoolFull"}
        /\ last'.err = IF last.err = "nil" /\ Size(pool) < MaxPoolSize
                       THEN "ErrDuplicateTx" ELSE "ErrPoolFull"
        /\ pool' = pool]_vars

\* C10 witness: the second of two calls, which resubmits the content of the
\* first under another signature, was rejected as a duplicate.
C10_Witness ==
    /\ calls = 2
    /\ last.op = "Add"
    /\ last.err = "ErrDuplicateTx"
    /\ \E h \in DOMAIN pool :
          /\ SameContent(pool[h], last.args[1])
          /\ pool[h].Signature # last.args[1].Signature

\* C11: the pool never holds more than MaxPoolSize transactions, and an Add
\* on a pool that holds MaxPoolSize transactions returns Full and leaves the
\* pool as it was.
C11_Bounded ==
    /\ [](Size(pool) <= MaxPoolSize)
    /\ [][(last'.op = "Add" /\ Size(pool) = MaxPoolSize) =>
            /\ last'.err = "ErrPoolFull"
            /\ pool' = pool]_vars

\* C11 witness: an Add of a content that is not in the pool was rejected by
\* a pool that holds MaxPoolSize transactions.
C11_Witness ==
    /\ last.op = "Add"
    /\ last.err = "ErrPoolFull"
    /\ last.val = FALSE
    /\ Size(pool) = MaxPoolSize

\* C12: Pop(n) returns min(n, Size) transactions in non-increasing gas
\* price order, each with a gas price at least that of every transaction
\* left; the returned transactions are out of the pool, every other
\* transaction stays, and Size goes down by the number returned.
C12_Pop ==
    [][last'.op = "Pop" =>
        LET n == last'.args[1]
            sel == last'.val
            gone == {Hash(sel[i]) : i \in 1..Len(sel)}
        IN  /\ Len(sel) = Min(n, Size(pool))
            /\ \A i, j \in 1..Len(sel) : i < j => sel[i].GasPrice >= sel[j].GasPrice
            /\ \A i \in 1..Len(sel) : \A h \in DOMAIN pool' :
                    sel[i].GasPrice >= pool'[h].GasPrice
            /\ \A i \in 1..Len(sel) :
                    /\ Hash(sel[i]) \in DOMAIN pool
                    /\ pool[Hash(sel[i])] = sel[i]
                    /\ Hash(sel[i]) \notin DOMAIN pool'
            /\ Cardinality(gone) = Len(sel)
            /\ pool' = [h \in DOMAIN pool \ gone |-> pool[h]]
            /\ Size(pool') = Size(pool) - Len(sel)]_vars

\* C12 witness: a Pop(2) on a pool of three transactions returned two of
\* different gas prices and left one.
C12_Witness ==
    /\ last.op = "Pop"
    /\ last.args[1] = 2
    /\ Len(last.val) = 2
    /\ last.val[1].GasPrice > last.val[2].GasPrice
    /\ Size(pool) = 1

\* C13 as stated, for the transaction added last: when an Add that put a
\* transaction in the pool is followed by a Pop, that transaction is
\* returned after every returned transaction of its gas price, and is not
\* returned while a transaction of its gas price stays in the pool.
C13_TiesByArrival ==
    [][(last.op = "Add" /\ last.err = "nil" /\ last'.op = "Pop") =>
        LET new == last.args[1]
            sel == last'.val
        IN  \A i \in 1..Len(sel) : sel[i] = new =>
                /\ \A j \in 1..Len(sel) :
                        (j > i) => sel[j].GasPrice # new.GasPrice
                /\ \A h \in DOMAIN pool' : pool'[h].GasPrice # new.GasPrice]_vars

----------------------------------------------------------------------------
(* EngineSpec: the node of cmd/ziond.  The proposer goroutine started by   *)
(* Start, the feeder goroutine that pops batches off the pool into the     *)
(* channel of batches, a subscriber of Blocks(), and callers of            *)
(* AddValidator, ValidateBlock, Stop and Pool.Add.  A panic that nobody    *)
(* recovers ends the process.                                              *)

ProposerAddrs == {"V1"}

\* The validators handed to AddValidator: at the minimum stake and below.
ValidatorsIn ==
    {[Address |-> "V1", Stake |-> MinStake, PoIScore |-> 0],
     [Address |-> "V1", Stake |-> MinStake - 1, PoIScore |-> 0]}

\* The transactions submitted to the node: a transfer from an account that
\* holds nothing.
EngineTxs ==
    {[NewTransferTx("A", "B", 300, 0, 5) EXCEPT !.Signature = "sig1"]}

\* The blocks handed to ValidateBlock: proposed by V1, at the next height or
\* not, on the tip or not.
BlocksIn ==
    {NewBlock(h, ph, "V1", <<>>, 0) :
        h \in {height, height + 1},
        ph \in {ZeroHash, PrevHashOf(tip)}}

Running == ~crashed

\* ZionBFT.Start, called once.
Start ==
    /\ Running
    /\ loop.pc = "idle"
    /\ \E addr \in ProposerAddrs : loop' = Loop("select", addr, <<>>, 0)
    /\ last' = Call("Start", <<>>, "nil", "nil")
    /\ UNCHANGED <<ledgerVars, ctx, poolVars, validators, height, tip, blockCh,
                   quit, txFeed, produced, clock, crashed, calls,
                   blockChClosed, lockVars, auxVars>>

\* ZionBFT.Stop: close(e.quitCh) and nothing else; closing a closed channel
\* panics.
Stop ==
    /\ Running
    /\ quit' = TRUE
    /\ crashed' = quit
    /\ last' = Call("Stop", <<>>, IF quit THEN "panic" ELSE "nil", "nil")
    /\ UNCHANGED <<ledgerVars, ctx, poolVars, validators, height, tip, blockCh,
                   txFeed, loop, produced, clock, calls,
                   blockChClosed, lockVars, auxVars>>

\* A loop that Stop interrupts wherever it is, in the middle of a tick too.
LoopQuitAbrupt ==
    /\ Running
    /\ loop.pc \notin {"idle", "exited"}
    /\ quit
    /\ loop' = [loop EXCEPT !.pc = "exited"]
    /\ UNCHANGED <<ledgerVars, ctx, poolVars, validators, height, tip, blockCh,
                   quit, txFeed, produced, clock, crashed, last, calls,
                   blockChClosed, lockVars, auxVars>>

\* runProposer, the outer select: <-e.quitCh.
LoopQuit ==
    /\ Running
    /\ loop.pc = "select"
    /\ quit
    /\ loop' = [loop EXCEPT !.pc = "exited"]
    /\ UNCHANGED <<ledgerVars, ctx, poolVars, validators, height, tip, blockCh,
                   quit, txFeed, produced, clock, crashed, last, calls,
                   blockChClosed, lockVars, auxVars>>

\* runProposer, the outer select: <-ticker.C.  When both cases are ready
\* the select takes either.
LoopTick ==
    /\ Running
    /\ loop.pc = "select"
    /\ height < MaxHeight
    /\ clock' = clock + 1
    /\ loop' = [loop EXCEPT !.pc = "recv"]
    /\ UNCHANGED <<ledgerVars, ctx, poolVars, validators, height, tip, blockCh,
                   quit, txFeed, produced, crashed, last, calls,
                   blockChClosed, lockVars, auxVars>>

\* An inner receive that waits for a batch.
LoopRecvBlocking ==
    /\ Running
    /\ loop.pc = "recv"
    /\ txFeed # <<>>
    /\ loop' = [loop EXCEPT !.pc = "build", !.txs = Head(txFeed)]
    /\ txFeed' = Tail(txFeed)
    /\ UNCHANGED <<ledgerVars, ctx, poolVars, validators, height, tip, blockCh,
                   quit, produced, clock, crashed, last, calls,
                   blockChClosed, lockVars, auxVars>>

\* runProposer, the inner select: a batch if one is ready, else none.
LoopRecv ==
    /\ Running
    /\ loop.pc = "recv"
    /\ IF txFeed # <<>>
       THEN /\ loop' = [loop EXCEPT !.pc = "build", !.txs = Head(txFeed)]
            /\ txFeed' = Tail(txFeed)
       ELSE /\ loop' = [loop EXCEPT !.pc = "build", !.txs = <<>>]
            /\ UNCHANGED txFeed
    /\ UNCHANGED <<ledgerVars, ctx, poolVars, validators, height, tip, blockCh,
                   quit, produced, clock, crashed, last, calls,
                   blockChClosed, lockVars, auxVars>>

\* runProposer, under e.mu: build the block on the tip and advance the tip.
LoopBuild ==
    /\ Running
    /\ loop.pc = "build"
    /\ LET b == NewBlock((height + 1) % Uint64Mod, PrevHashOf(tip), loop.addr,
                         loop.txs, clock)
       IN  /\ height' = (height + 1) % Uint64Mod
           /\ tip' = Ptr(b)
           /\ produced' = Append(produced, b)
    /\ loop' = [loop EXCEPT !.pc = "reward"]
    /\ UNCHANGED <<ledgerVars, ctx, poolVars, validators, blockCh, quit, txFeed,
                   clock, crashed, last, calls,
                   blockChClosed, lockVars, auxVars>>

\* applyBlockReward: e.state.GetAccount.
LoopRewardRead ==
    /\ Running
    /\ loop.pc = "reward"
    /\ loop' = [loop EXCEPT !.pc = "credit",
                            !.bal = GetAccount(Cur, loop.addr).Balance]
    /\ UNCHANGED <<ledgerVars, ctx, poolVars, validators, height, tip, blockCh,
                   quit, txFeed, produced, clock, crashed, last, calls,
                   blockChClosed, lockVars, auxVars>>

\* A proposer that announces the block without crediting the reward.
LoopRewardSkipped ==
    /\ Running
    /\ loop.pc = "credit"
    /\ loop' = [loop EXCEPT !.pc = "announce"]
    /\ UNCHANGED <<ledgerVars, ctx, poolVars, validators, height, tip, blockCh,
                   quit, txFeed, produced, clock, crashed, last, calls,
                   blockChClosed, lockVars, auxVars>>

\* applyBlockReward: e.state.SetBalance of the balance read plus the reward.
LoopRewardWrite ==
    /\ Running
    /\ loop.pc = "credit"
    /\ SetLedger(SetBalance(Cur, loop.addr, loop.bal + Reward).st)
    /\ loop' = [loop EXCEPT !.pc = "announce"]
    /\ UNCHANGED <<ctx, poolVars, validators, height, tip, blockCh, quit, txFeed,
                   produced, clock, crashed, last, calls,
                   blockChClosed, lockVars, auxVars>>

\* An announcement that waits for room in the channel.
LoopAnnounceBlocking ==
    /\ Running
    /\ loop.pc = "announce"
    /\ Len(blockCh) < BlockChCap
    /\ blockCh' = Append(blockCh, Deref(tip))
    /\ loop' = [loop EXCEPT !.pc = "select"]
    /\ UNCHANGED <<ledgerVars, ctx, poolVars, validators, height, tip, quit,
                   txFeed, produced, clock, crashed, last, calls,
                   blockChClosed, lockVars, auxVars>>

\* runProposer, the last select: send the block if the channel has room,
\* else go on without sending it.
LoopAnnounce ==
    /\ Running
    /\ loop.pc = "announce"
    /\ blockCh' = IF Len(blockCh) < BlockChCap THEN Append(blockCh, Deref(tip)) ELSE blockCh
    /\ loop' = [loop EXCEPT !.pc = "select"]
    /\ UNCHANGED <<ledgerVars, ctx, poolVars, validators, height, tip, quit,
                   txFeed, produced, clock, crashed, last, calls,
                   blockChClosed, lockVars, auxVars>>

\* A subscriber of Blocks() receives a block.  Its range over the channel
\* ends only when the channel is closed and empty.
Receive ==
    /\ Running
    /\ blockCh # <<>>
    /\ blockCh' = Tail(blockCh)
    /\ UNCHANGED <<ledgerVars, ctx, poolVars, validators, height, tip, quit,
                   txFeed, loop, produced, clock, crashed, last, calls,
                   blockChClosed, lockVars, auxVars>>

DoAddValidator ==
    /\ Running
    /\ \E v \in ValidatorsIn :
        LET r == AddValidator(validators, v)
        IN  /\ validators' = r.validators
            /\ last' = Call("AddValidator", <<v>>, r.err, "nil")
    /\ UNCHANGED <<ledgerVars, ctx, poolVars, height, tip, blockCh, quit, txFeed,
                   loop, produced, clock, crashed, calls,
                   blockChClosed, lockVars, auxVars>>

DoValidateBlock ==
    /\ Running
    /\ \E b \in BlocksIn :
        LET r == ValidateBlock(validators, height, tip, b)
        IN  /\ last' = Call("ValidateBlock", <<b>>, r, "nil")
            /\ crashed' = (r = "panic")
    /\ UNCHANGED <<ledgerVars, ctx, poolVars, validators, height, tip, blockCh,
                   quit, txFeed, loop, produced, clock, calls,
                   blockChClosed, lockVars, auxVars>>

\* rpc sendTransaction: Pool.Add.
Submit ==
    /\ Running
    /\ \E tx \in EngineTxs :
        pool' = Add(pool, tx).pool
    /\ UNCHANGED <<ledgerVars, ctx, batch, results, engineVars, lockVars, auxVars, last, calls>>

\* The feeder of cmd/ziond: pool.Pop; an empty batch is not sent.
FeederPop ==
    /\ Running
    /\ batch = <<>>
    /\ \E o \in Pop(pool, FeedBatch) :
        /\ o.selected # <<>>
        /\ pool' = o.pool
        /\ batch' = o.selected
    /\ UNCHANGED <<ledgerVars, ctx, results, engineVars, lockVars, auxVars, last, calls>>

\* The feeder of cmd/ziond: txFeed <- batch, which waits for room.
FeederSend ==
    /\ Running
    /\ batch # <<>>
    /\ Len(txFeed) < TxFeedCap
    /\ txFeed' = Append(txFeed, batch)
    /\ batch' = <<>>
    /\ UNCHANGED <<ledgerVars, ctx, pool, results, validators, height, tip,
                   blockCh, quit, loop, produced, clock, crashed, last, calls,
                   blockChClosed, lockVars, auxVars>>

EngineInit == Init

EngineNext ==
    \/ Start
    \/ Stop
    \/ LoopQuit
    \/ LoopTick
    \/ LoopRecv
    \/ LoopBuild
    \/ LoopRewardRead
    \/ LoopRewardWrite
    \/ LoopAnnounce
    \/ Receive
    \/ DoAddValidator
    \/ DoValidateBlock
    \/ Submit
    \/ FeederPop
    \/ FeederSend

EngineSpec == EngineInit /\ [][EngineNext]_vars

\* EngineLive: EngineSpec where the proposer goroutine, once it took a tick,
\* is scheduled until it is back at its select: none of these steps waits
\* for another goroutine longer than a hold of e.mu or of the ledger's lock.
EngineLive ==
    /\ EngineSpec
    /\ WF_vars(LoopRecv)
    /\ WF_vars(LoopBuild)
    /\ WF_vars(LoopRewardRead)
    /\ WF_vars(LoopRewardWrite)
    /\ WF_vars(LoopAnnounce)

----------------------------------------------------------------------------
(* Claims on the block producer, checked under EngineSpec.                 *)

\* C7: of every two consecutive blocks the loop built, the second has the
\* height of the first plus one and the hash of the first as its previous
\* hash, whatever ValidateBlock and AddValidator calls ran in between.
C7_Monotonic ==
    \A i \in 1..(Len(produced) - 1) :
        /\ produced[i + 1].Header.Height = produced[i].Header.Height + 1
        /\ produced[i + 1].Header.PrevHash = BlockHash(produced[i])

\* C7 witness: three blocks were built, a validator was added and the last
\* call was a ValidateBlock.
C7_Witness ==
    /\ Len(produced) = 3
    /\ validators # <<>>
    /\ last.op = "ValidateBlock"

\* Applying a batch to ledger L at height h, transaction after transaction,
\* each in a fresh context whose gas limit is the transaction's: the ledger
\* left and the transactions that succeeded, in order.
RECURSIVE ExecBatch(_, _, _)
ExecBatch(L, txs, h) ==
    IF txs = <<>> THEN [st |-> L, included |-> <<>>]
    ELSE LET r == ApplyTransaction(Context(Head(txs).Gas, 0, h), L, Head(txs))
             rest == ExecBatch(r.st, Tail(txs), h)
         IN  [st |-> rest.st,
              included |-> IF r.err = "nil" THEN <<Head(txs)>> \o rest.included
                           ELSE rest.included]

\* C8 as stated: when the loop builds a block from a batch, the batch was
\* applied to the ledger in order, the block holds exactly the transactions
\* that succeeded, and no transaction is put back in the pool.
C8_BlockOfSucceeded ==
    [][(loop.pc = "build" /\ loop'.pc = "reward") =>
        LET e == ExecBatch(Cur, loop.txs, height + 1)
        IN  /\ Deref(tip').Txs = e.included
            /\ Ledger(accounts', agents', messages') = e.st
            /\ pool' = pool]_vars

\* C17 as stated: once Stop has been called, the loop takes no tick.
C17_NoTickAfterStop ==
    [][quit => ~(loop.pc = "select" /\ loop'.pc = "recv")]_vars

\* C18 as stated, in the state where the subscriber would wait forever:
\* once Stop was called, the loop has returned and the channel of blocks is
\* drained, the channel is closed.
C18_ChannelReleased ==
    (quit /\ loop.pc = "exited" /\ blockCh = <<>>) => blockChClosed

\* C19 as stated: a block announced while the channel holds BlockChCap
\* blocks takes the place of the oldest one.
C19_DropOldest ==
    [][(/\ loop.pc = "announce"
        /\ loop'.pc = "select"
        /\ Len(blockCh) = BlockChCap)
       => blockCh' = Append(Tail(blockCh), Deref(tip))]_vars

\* C20: whatever the channel of blocks holds and whether or not anybody
\* reads it, every tick the loop takes goes on to build a block, which
\* raises the height by one, and brings the loop back to its select (unless
\* a panic ends the process).
C20_NeverStalls ==
    /\ [][/\ (loop.pc = "recv" /\ loop'.pc # "recv") => (loop'.pc = "build")
          /\ (loop.pc = "build" /\ loop'.pc # "build") =>
               (height' = height + 1 /\ Len(produced') = Len(produced) + 1)]_vars
    /\ (loop.pc = "recv") ~> (crashed \/ loop.pc = "select")

\* C20 witness: nobody ever received a block (the channel still holds the
\* first blocks built), the channel is full, and the loop built more blocks
\* than the channel holds and is back at its select.
C20_Witness ==
    /\ Len(produced) > BlockChCap
    /\ height = Len(produced)
    /\ blockCh = SubSeq(produced, 1, BlockChCap)
    /\ loop.pc = "select"
    /\ ~quit

\* C21: the loop built one block for every tick it took (but the one it is
\* handling) and the height is the number of blocks built; a tick taken
\* never waits for a batch: it goes on with the batch at the head of the
\* feed if there is one and with no transactions if there is none; and the
\* block built holds exactly these transactions and raises the height by 1.
C21_OneBlockPerTick ==
    /\ [](/\ height = Len(produced)
          /\ height = clock - (IF loop.pc \in {"recv", "build"} THEN 1 ELSE 0)
          /\ (loop.pc = "recv" /\ Running) => ENABLED LoopRecv)
    /\ [][/\ (loop.pc = "recv" /\ loop'.pc # "recv") =>
               /\ loop'.pc = "build"
               /\ loop'.txs = IF txFeed = <<>> THEN <<>> ELSE Head(txFeed)
          /\ (loop.pc = "build" /\ loop'.pc # "build") =>
               /\ height' = height + 1
               /\ produced' = Append(produced, Deref(tip'))
               /\ Deref(tip').Header.Height = height'
               /\ Deref(tip').Txs = loop.txs]_vars

\* C21 witness: of two blocks built, one holds a batch and one, built with no
\* batch ready, holds no transactions.
C21_Witness ==
    /\ height = 2
    /\ Len(produced) = 2
    /\ \E i, j \in 1..2 : produced[i].Txs = <<>> /\ produced[j].Txs # <<>>

\* The balance of the proposer's account.
ProposerBalance == GetAccount(Cur, "V1").Balance

\* A subscriber receives the block at the head of the channel.
ReceiveStep == blockCh # <<>> /\ blockCh' = Tail(blockCh)

(* C22 as stated: when a subscriber receives the block of height h, the
   proposer's balance is the rewards of h blocks, 5 x 10^18 each (no other
   ledger operation runs under EngineSpec, and the balance starts at 0). *)
C22_BalanceAtReceive ==
    [][ReceiveStep =>
          ProposerBalance = Head(blockCh).Header.Height * BlockReward * BaseUnit]_vars

(* C22, amended: every block credits one reward of 5 x 10^18 to the proposer,
   after the tip has advanced to that block and before the block is
   announced; so the balance is one reward per block built, less the reward
   of the block that is between its build and its credit.  A subscriber that
   receives the block of height h finds at least h rewards, and finds more
   when the proposer has gone on to later blocks. *)
C22_RewardPerBlock ==
    /\ [](ProposerBalance = BlockReward * BaseUnit *
             (height - (IF loop.pc \in {"reward", "credit"} THEN 1 ELSE 0)))
    /\ [][/\ accounts' # accounts =>
               /\ loop.pc = "credit" /\ loop'.pc = "announce"
               /\ Deref(tip).Header.Height = height
               /\ Deref(tip) \notin {blockCh[i] : i \in 1..Len(blockCh)}
               /\ ProposerBalance' = ProposerBalance + BlockReward * BaseUnit
               /\ UNCHANGED <<height, tip, blockCh>>
          /\ (blockCh' # blockCh /\ ~ReceiveStep) =>
               /\ loop.pc = "announce"
               /\ blockCh' = Append(blockCh, Deref(tip))
               /\ ProposerBalance = Deref(tip).Header.Height * BlockReward * BaseUnit
          /\ ReceiveStep =>
               ProposerBalance >= Head(blockCh).Header.Height * BlockReward * BaseUnit]_vars

\* The subscriber has received block 1 and block 2 waits in the channel,
\* while the proposer has been credited for three blocks.
C22_Witness ==
    /\ height = 3
    /\ Len(blockCh) = 1
    /\ Head(blockCh).Header.Height = 2
    /\ ProposerBalance = 3 * BlockReward * BaseUnit

\* A call of ValidateBlock, of AddValidator.
ValidateBlockStep ==
    last'.op = "ValidateBlock" /\ (last' # last \/ crashed' # crashed)

AddValidatorStep == last'.op = "AddValidator" /\ last' # last

(* C23 as stated: in every reachable state, before the first block too,
   ValidateBlock returns ok exactly when the proposer is registered, the
   height is the tip's plus one and the previous hash is the tip's hash;
   else UnknownValidator or InvalidBlock; it never crashes and changes
   neither the tip, the height nor the registry. *)
C23_ValidateBlockTotal ==
    [][ValidateBlockStep =>
         LET b == last'.args[1]
             known == b.Header.ValidatorAddr \in DOMAIN validators
             next == b.Header.Height = height + 1
             onTip == b.Header.PrevHash = PrevHashOf(tip)
         IN  /\ last'.err \in {"nil", "ErrUnknownValidator", "ErrInvalidBlock"}
             /\ crashed' = crashed
             /\ (last'.err = "nil") <=> (known /\ next /\ onTip)
             /\ (last'.err = "ErrUnknownValidator") <=> ~known
             /\ UNCHANGED <<tip, height, validators>>]_vars

(* C24: AddValidator returns ok exactly when the stake is at least the
   minimum of 10,000 x 10^18, and then registers the validator under its
   address; a rejected call leaves the registry as it was; so every
   validator of the registry holds at least the minimum. *)
C24_MinimumStake ==
    /\ [](\A a \in DOMAIN validators :
              /\ validators[a].Address = a
              /\ validators[a].Stake >= MinValidatorStake * BaseUnit)
    /\ [][AddValidatorStep =>
            LET v == last'.args[1]
            IN  /\ (last'.err = "nil") <=> (v.Stake >= MinValidatorStake * BaseUnit)
                /\ (last'.err # "nil") =>
                      (last'.err = "stake below minimum" /\ validators' = validators)
                /\ (last'.err = "nil") =>
                      /\ DOMAIN validators' = DOMAIN validators \cup {v.Address}
                      /\ validators'[v.Address] = v
                      /\ \A a \in DOMAIN validators \ {v.Address} :
                             validators'[a] = validators[a]]_vars

\* A validator below the minimum was rejected after one at the minimum was
\* registered.
C24_Witness ==
    /\ last.op = "AddValidator"
    /\ last.err = "stake below minimum"
    /\ last.args[1].Stake = MinValidatorStake * BaseUnit - 1
    /\ "V1" \in DOMAIN validators
    /\ validators["V1"].Stake = MinValidatorStake * BaseUnit

----------------------------------------------------------------------------
(* Claims on the Ledger and the Execution Engine, checked under Spec.      *)

NonNegative(acc) == \A a \in DOMAIN acc : acc[a].Balance >= 0

\* The arguments of the Transfer call a step made.
TFrom == last'.args[1]
TTo == last'.args[2]
TValue == last'.args[3]

\* The context and the transaction of the ApplyTransaction call a step made.
ACtx == last'.args[1]
ATx == last'.args[2]

\* C1: every Transfer call, successful or failed, between two addresses or
\* from an address to itself, leaves the sum of all balances as it was.
C1_Conservation ==
    [][last'.op = "Transfer" => SumBalances(accounts') = SumBalances(accounts)]_vars

\* C1 witness: a transfer of 2 from an address to itself succeeded.
C1_Witness ==
    /\ last.op = "Transfer"
    /\ last.err = "nil"
    /\ last.args[1] = last.args[2]
    /\ last.args[3] = 2

\* C2 as stated: Transfer fails with InsufficientBalance iff
\* balance(from) < v; a failure changes neither balance; a success lowers
\* balance(from) by exactly v and raises balance(to) by exactly v.
C2_Original ==
    [][last'.op = "Transfer" =>
        /\ (last'.err = "ErrInsufficientBalance")
              <=> (BalanceOf(accounts, TFrom) < TValue)
        /\ last'.err = "ErrInsufficientBalance" =>
              /\ BalanceOf(accounts', TFrom) = BalanceOf(accounts, TFrom)
              /\ BalanceOf(accounts', TTo) = BalanceOf(accounts, TTo)
        /\ last'.err = "nil" =>
              /\ BalanceOf(accounts', TFrom) = BalanceOf(accounts, TFrom) - TValue
              /\ BalanceOf(accounts', TTo) = BalanceOf(accounts, TTo) + TValue]_vars

\* C2 amended: Transfer fails with InsufficientBalance iff balance(from) < v
\* and returns ok otherwise; a failure changes neither balance; a success
\* with from # to lowers balance(from) by exactly v and raises balance(to)
\* by exactly v; a success with from = to leaves the balance as it was.
C2_Transfer ==
    [][last'.op = "Transfer" =>
        /\ last'.err \in {"nil", "ErrInsufficientBalance"}
        /\ (last'.err = "ErrInsufficientBalance")
              <=> (BalanceOf(accounts, TFrom) < TValue)
        /\ last'.err = "ErrInsufficientBalance" =>
              /\ BalanceOf(accounts', TFrom) = BalanceOf(accounts, TFrom)
              /\ BalanceOf(accounts', TTo) = BalanceOf(accounts, TTo)
        /\ (last'.err = "nil" /\ TFrom # TTo) =>
              /\ BalanceOf(accounts', TFrom) = BalanceOf(accounts, TFrom) - TValue
              /\ BalanceOf(accounts', TTo) = BalanceOf(accounts, TTo) + TValue
        /\ (last'.err = "nil" /\ TFrom = TTo) =>
              BalanceOf(accounts', TFrom) = BalanceOf(accounts, TFrom)]_vars

\* C2 witness: a transfer of 2 between two different addresses succeeded.
C2_Witness ==
    /\ last.op = "Transfer"
    /\ last.err = "nil"
    /\ last.args[1] # last.args[2]
    /\ last.args[3] = 2
    /\ BalanceOf(accounts, last.args[2]) >= 2

\* C3 as stated: a Transfer call, a block-reward credit or an applied
\* transaction that starts with every balance >= 0 ends with every balance
\* >= 0, whatever integer is passed as the amount.
C3_NonNegative ==
    [][(/\ last'.op \in {"Transfer", "applyBlockReward", "ApplyTransaction"}
        /\ NonNegative(accounts))
       => NonNegative(accounts')]_vars

\* C4 as stated: when ApplyTransaction returns an error, the ledger (stored
\* accounts, balances, nonces, agent records, message log) is as before.
C4_AllOrNothing ==
    [][(last'.op = "ApplyTransaction" /\ last'.err # "nil")
       => UNCHANGED ledgerVars]_vars

\* The fixed cost of a handled transaction type.
FixedCost(type) ==
    CASE type = TxTransfer -> GasTransfer
      [] type = TxAgentRegister -> GasAgentRegister
      [] type = TxAgentMessage -> GasAgentMessage
      [] type = TxInferenceReceipt -> GasInferenceReceipt

HandledTypes == {TxTransfer, TxAgentRegister, TxAgentMessage, TxInferenceReceipt}

\* C5 as stated: a transaction of a handled type whose own gas limit (Tx.Gas)
\* is below the fixed cost of its type fails with OutOfGas when applied, and
\* the ledger is unchanged.
C5_DeclaredGasBelowCost ==
    [][(/\ last'.op = "ApplyTransaction"
        /\ ATx.Type \in HandledTypes
        /\ ATx.Gas < FixedCost(ATx.Type))
       => (last'.err = "ErrOutOfGas" /\ UNCHANGED ledgerVars)]_vars

\* C6 as stated: no step lowers the nonce of an account, and a transaction
\* from address A that is applied successfully leaves the nonce of A
\* strictly greater than before.
C6_NonceIncreases ==
    [][/\ \A a \in Addrs : NonceOf(accounts', a) >= NonceOf(accounts, a)
       /\ (last'.op = "ApplyTransaction" /\ last'.err = "nil")
             => NonceOf(accounts', ATx.From) > NonceOf(accounts, ATx.From)]_vars

\* C14: RegisterAgent on a registered identifier fails with
\* AlreadyRegistered, whatever the identity handed in, and leaves every
\* agent record as it was; GetAgent on an identifier that is not registered
\* fails with NotFound; no operation removes a registered agent.
C14_Agents ==
    [][/\ (last'.op = "RegisterAgent" /\ last'.args[1].ID \in DOMAIN agents)
            => /\ last'.err = "ErrAgentAlreadyRegistered"
               /\ agents' = agents
       /\ (last'.op = "GetAgent" /\ last'.args[1] \notin DOMAIN agents)
            => last'.err = "ErrAgentNotFound"
       /\ DOMAIN agents \subseteq DOMAIN agents']_vars

\* C14 witness: a RegisterAgent of a registered identifier, with another
\* controller than the registered one and after a message of the agent was
\* counted, was rejected.
C14_Witness ==
    /\ last.op = "RegisterAgent"
    /\ last.err = "ErrAgentAlreadyRegistered"
    /\ last.args[1].ID \in DOMAIN agents
    /\ agents[last.args[1].ID].DID # last.args[1]
    /\ agents[last.args[1].ID].MessageCount = 1

\* The identifier of the identity that a payload encodes.
PayloadID(data) == (CHOOSE did \in DIDs : MarshalDID(did) = data).ID

\* C15 as stated: after a successful AgentRegister transaction whose payload
\* encodes an identity with identifier I, the agent I is registered at the
\* height of the context, active and with no message counted.
C15_RegistersPayload ==
    [][(/\ last'.op = "ApplyTransaction"
        /\ ATx.Type = TxAgentRegister
        /\ ATx.Data \in {MarshalDID(did) : did \in DIDs}
        /\ last'.err = "nil") =>
        LET I == PayloadID(ATx.Data)
        IN  /\ I \in DOMAIN agents'
            /\ agents'[I].RegisteredAt = ACtx.Height
            /\ agents'[I].Active
            /\ agents'[I].MessageCount = 0]_vars

\* C16: every operation leaves the entries of the message log in place (the
\* log only grows) and lowers no agent's MessageCount; StoreMessage appends
\* the message at the end of the log, adds exactly 1 to the MessageCount of
\* the sender if the sender is a registered agent and changes no agent
\* record if it is not, and changes no other agent record and no account.
C16_MessageLog ==
    [][/\ Len(messages') >= Len(messages)
       /\ SubSeq(messages', 1, Len(messages)) = messages
       /\ \A id \in DOMAIN agents :
            /\ id \in DOMAIN agents'
            /\ agents'[id].MessageCount >= agents[id].MessageCount
       /\ last'.op = "StoreMessage" =>
            LET msg == last'.args[1]
            IN  /\ messages' = Append(messages, msg)
                /\ accounts' = accounts
                /\ agents' = IF msg.From \in DOMAIN agents
                              THEN [agents EXCEPT ![msg.From].MessageCount = @ + 1]
                              ELSE agents]_vars

\* C16 witness: a second message was stored, from a registered agent, after
\* a first one was in the log.
C16_Witness ==
    /\ last.op = "StoreMessage"
    /\ Len(messages) = 2
    /\ last.args[1].From \in DOMAIN agents
    /\ agents[last.args[1].From].MessageCount >= 1

(* C27: GetAccount never fails; for an address with no stored account it
   returns an account of that address with balance 0 and nonce 0, which is
   not stored; the call leaves the ledger, and so what Snapshot returns,
   as it was. *)
C27_DefaultAccount ==
    [][(last'.op = "GetAccount" /\ calls' # calls) =>
         LET addr == last'.args[1]
         IN  /\ last'.err = "nil"
             /\ last'.val.Address = addr
             /\ addr \notin DOMAIN accounts =>
                   /\ last'.val.Balance = 0
                   /\ last'.val.Nonce = 0
                   /\ addr \notin DOMAIN accounts'
             /\ addr \in DOMAIN accounts =>
                   /\ last'.val.Balance = accounts[addr].Balance
                   /\ last'.val.Nonce = accounts[addr].Nonce
             /\ UNCHANGED ledgerVars
             /\ Snapshot(Ledger(accounts', agents', messages')) = Snapshot(Cur)]_vars

\* GetAccount was called on an address with no stored account, while another
\* account is stored.
C27_Witness ==
    /\ last.op = "GetAccount"
    /\ last.args[1] \notin DOMAIN accounts
    /\ last.val = [Address |-> last.args[1], Balance |-> 0, Nonce |-> 0,
                   stored |-> FALSE]
    /\ accounts # <<>>

(* C28 as stated: ApplyTransaction on a transaction of a type with no handler
   fails with InvalidOperation (an error kind of its own, not the
   InvalidOpcode of the instruction stream), uses no gas and leaves the
   ledger unchanged. *)
C28_InvalidOperation ==
    [][(last'.op = "ApplyTransaction" /\ ATx.Type \notin HandledTypes) =>
         /\ last'.err = "ErrInvalidOperation"
         /\ ctx'.GasUsed = ACtx.GasUsed
         /\ UNCHANGED ledgerVars]_vars

----------------------------------------------------------------------------
(* VmSpec: one call of AVM.Execute on a new ledger, on every instruction   *)
(* stream of up to MaxCode opcodes.                                         *)

\* The opcodes of the streams: the declared ones and an undeclared byte.
OpUndeclared == 255

Opcodes ==
    {OpStop, OpAgentRegister, OpAgentSend, OpAgentDelegate, OpInferProve,
     OpInferVerify, OpTokenTransfer, OpReturn, OpRevert, OpUndeclared}

RECURSIVE CodesOfLen(_)
CodesOfLen(n) ==
    IF n = 0 THEN {<<>>}
    ELSE {Append(code, op) : code \in CodesOfLen(n - 1), op \in Opcodes}

Codes == UNION {CodesOfLen(n) : n \in 0..MaxCode}

\* The gas limits of the call: room for one message or one receipt only, and
\* room for every stream.
ExecGasLimits == {GasInferenceReceipt, MaxCode * GasAgentRegister}

DoExecute ==
    /\ calls = 0
    /\ calls' = 1
    /\ \E code \in Codes, gl \in ExecGasLimits, h \in Heights :
        LET c == Context(gl, 0, h)
            r == Execute(c, Cur, code)
        IN  /\ SetLedger(r.st)
            /\ ctx' = r.ctx
            /\ last' = Call("Execute", <<c, code>>, r.err,
                            [out |-> r.out, steps |-> r.steps,
                             stack |-> r.stack])
    /\ UNCHANGED <<poolVars, engineVars, lockVars, auxVars>>

VmInit == Init

VmNext == DoExecute

VmSpec == VmInit /\ [][VmNext]_vars

----------------------------------------------------------------------------
(* Claims on AVM.Execute, checked under VmSpec.                             *)

\* The context and the stream of the Execute call, and the opcode it ended
\* on.
ECtx == last.args[1]
ECode == last.args[2]
EFetched == Len(last.val.steps)

(* C29: Execute fetches the opcodes of the stream in order; opcodes with a
   precompile run and execution goes on; the first opcode without one ends
   execution: Stop succeeds with no output, Return yields the top of the
   operand stack or fails with StackUnderflow when the stack is empty, Revert
   fails with ExecutionReverted, and any other byte (0x12, 0x21, 0x30 and
   undeclared bytes among them) fails with InvalidOpcode; a stream that ends
   without such an opcode succeeds with no output; whatever follows the
   opcode that ended execution has no effect at all. *)
C29_Structural ==
    (last.op = "Execute") =>
        LET n == EFetched
            end == IF n = 0 THEN OpStop ELSE ECode[n]
            cut == Execute(ECtx, NewStateDB, SubSeq(ECode, 1, n))
        IN  /\ n <= Len(ECode)
            /\ last.val.steps = SubSeq(ECode, 1, n)
            /\ \A i \in 1..(n - 1) : ECode[i] \in Precompiles
            /\ (n = 0) => (ECode = <<>> /\ last.err = "nil" /\ last.val.out = NoBytes)
            /\ (n > 0 /\ end = OpStop) =>
                   (last.err = "nil" /\ last.val.out = NoBytes)
            /\ (n > 0 /\ end = OpReturn /\ last.val.stack = <<>>) =>
                   (last.err = "ErrStackUnderflow" /\ last.val.out = NoBytes)
            /\ (n > 0 /\ end = OpReturn /\ last.val.stack # <<>>) =>
                   /\ last.err = "nil"
                   /\ last.val.out = <<last.val.stack[Len(last.val.stack)]>>
            /\ (n > 0 /\ end = OpRevert) =>
                   (last.err = "ErrExecutionReverted" /\ last.val.out = NoBytes)
            /\ (n > 0 /\ end \notin Precompiles \cup {OpStop, OpReturn, OpRevert}) =>
                   (last.err = "ErrInvalidOpcode" /\ last.val.out = NoBytes)
            /\ (n > 0 /\ end \in Precompiles) =>
                   /\ last.val.out = NoBytes
                   /\ (last.err = "nil") => (n = Len(ECode))
                   /\ last.err \in {"nil", "ErrOutOfGas", "ErrAgentAlreadyRegistered"}
            /\ cut.err = last.err
            /\ cut.out = last.val.out
            /\ cut.ctx = ctx
            /\ cut.st = Cur

\* A receipt was pushed and returned; the message opcode after the Return
\* recorded nothing.
C29_Witness ==
    /\ last.op = "Execute"
    /\ ECode = <<OpInferProve, OpReturn, OpAgentSend>>
    /\ last.err = "nil"
    /\ last.val.out = <<<<1>>>>
    /\ messages = <<>>
    /\ ctx.GasUsed = GasInferenceReceipt

(* C30 as stated: when Execute fails, whatever the earlier opcodes of the
   call wrote to the ledger is discarded: the ledger is as it was before the
   call (here a new ledger). *)
C30_FailureDiscards ==
    (last.op = "Execute" /\ last.err # "nil") => Cur = NewStateDB

----------------------------------------------------------------------------
(* PowerSpec: callers of ZionBFT.AddValidator and ZionBFT.VotingPower.      *)

\* The stakes of the validators: none, below and at one unit, around the
\* minimum, and around 2^63 units, where an int64 ends.
PowerStakes ==
    {0, BaseUnit - 1, BaseUnit, MinStake - 1, MinStake, MinStake + BaseUnit + 1,
     (Uint64Mod \div 2) * BaseUnit - 1, (Uint64Mod \div 2) * BaseUnit}

\* The scores of the validators, in hundredths.
PowerScores == {-50, 0, 1, 100}

PowerValidators ==
    {[Address |-> "V1", Stake |-> st, PoIScore |-> sc] :
        st \in PowerStakes, sc \in PowerScores}

PowerCall ==
    /\ calls < MaxCalls
    /\ calls' = calls + 1
    /\ UNCHANGED <<ledgerVars, ctx, poolVars, height, tip, blockCh, quit, txFeed,
                   loop, produced, clock, crashed, blockChClosed, lockVars, auxVars>>

PowerAddValidator ==
    /\ PowerCall
    /\ \E v \in PowerValidators :
        LET r == AddValidator(validators, v)
        IN  /\ validators' = r.validators
            /\ last' = Call("AddValidator", <<v>>, r.err, "nil")

\* VotingPower of a validator of the registry, or of any other Validator
\* value.
PowerVotingPower ==
    /\ PowerCall
    /\ \E v \in PowerValidators \cup {validators[a] : a \in DOMAIN validators} :
        last' = Call("VotingPower", <<v>>, "nil", VotingPower(v))
    /\ UNCHANGED validators

PowerInit == Init

PowerNext ==
    \/ PowerAddValidator
    \/ PowerVotingPower

PowerSpec == PowerInit /\ [][PowerNext]_vars

----------------------------------------------------------------------------
(* Claims on ZionBFT.VotingPower, checked under PowerSpec.                  *)

(* C25 as stated: for every validator with stake >= 0, however large the
   stake, VotingPower is floor(stake / 10^18) plus the score in hundredths;
   so a registered validator with a score >= 0 has a voting power of at
   least 10,000. *)
C25_VotingPower ==
    (last.op = "VotingPower" /\ last.args[1].Stake >= 0) =>
        LET v == last.args[1]
        IN  /\ last.val = (v.Stake \div BaseUnit) + v.PoIScore
            /\ (/\ v.Address \in DOMAIN validators
                /\ validators[v.Address] = v
                /\ v.PoIScore >= 0) => last.val >= MinValidatorStake

----------------------------------------------------------------------------
(* ConcSpec: goroutines that call the ledger's mutators, each mutator one   *)
(* step per statement between s.mu.Lock() and the deferred s.mu.Unlock(),  *)
(* and a goroutine that calls Snapshot.                                     *)

\* The ledger ConcSpec starts from: A holds 2, B holds 1, one agent.
ConcStart ==
    RegisterAgent(SetBalance(SetBalance(NewStateDB, "A", 2).st, "B", 1).st,
                  [ID |-> "did:agc:0xabc", Controller |-> "A"], 1).st

\* The calls of the goroutines: transfers that succeed and that fail.
ConcCalls ==
    {[op |-> "Transfer", args |-> <<from, to, value>>] :
        from \in Addrs, to \in Addrs, value \in {1, 3}}
    \cup {[op |-> "SetBalance", args |-> <<addr, 4>>] : addr \in Addrs}
    \cup {[op |-> "RegisterAgent", args |-> <<did, 2>>] : did \in DIDs}
    \cup {[op |-> "StoreMessage", args |-> <<msg>>] : msg \in Msgs}

\* What the other goroutines and the rest of the node do in ConcSpec:
\* nothing.
ConcFrame == UNCHANGED <<ctx, poolVars, engineVars, auxVars>>

\* A goroutine calls a mutator.
Begin(w) ==
    /\ writers[w].pc = "idle"
    /\ calls < MaxConcCalls
    /\ calls' = calls + 1
    /\ \E c \in ConcCalls :
        /\ writers' = [writers EXCEPT ![w] =
                          [Idle EXCEPT !.pc = "lock", !.op = c.op, !.args = c.args]]
        /\ begun' = begun \cup {c.op}
    /\ UNCHANGED <<ledgerVars, mu, last>>
    /\ ConcFrame

\* s.mu.Lock(): waits until no goroutine holds the lock.
Lock(w) ==
    /\ writers[w].pc = "lock"
    /\ mu = ""
    /\ mu' = w
    /\ writers' = [writers EXCEPT ![w].pre = Cur,
                                  ![w].pc = CASE writers[w].op = "Transfer" -> "src"
                                              [] writers[w].op = "SetBalance" -> "get"
                                              [] writers[w].op = "RegisterAgent" -> "register"
                                              [] writers[w].op = "StoreMessage" -> "append"]
    /\ UNCHANGED <<ledgerVars, begun, last, calls>>
    /\ ConcFrame

\* Transfer: src := s.getOrCreate(from) and the balance check.
TransferSrc(w) ==
    /\ writers[w].pc = "src"
    /\ LET from == writers[w].args[1]
           value == writers[w].args[3]
       IN  /\ accounts' = getOrCreate(accounts, from)
           /\ writers' = IF accounts'[from].Balance < value
                         THEN [writers EXCEPT ![w].pc = "unlock",
                                              ![w].err = "ErrInsufficientBalance"]
                         ELSE [writers EXCEPT ![w].pc = "dst"]
    /\ UNCHANGED <<agents, messages, mu, begun, last, calls>>
    /\ ConcFrame

\* Transfer: dst := s.getOrCreate(to).
TransferDst(w) ==
    /\ writers[w].pc = "dst"
    /\ accounts' = getOrCreate(accounts, writers[w].args[2])
    /\ writers' = [writers EXCEPT ![w].pc = "sub"]
    /\ UNCHANGED <<agents, messages, mu, begun, last, calls>>
    /\ ConcFrame

\* Transfer: src.Balance.Sub(src.Balance, value).
TransferSub(w) ==
    /\ writers[w].pc = "sub"
    /\ accounts' = [accounts EXCEPT ![writers[w].args[1]].Balance =
                                        @ - writers[w].args[3]]
    /\ writers' = [writers EXCEPT ![w].pc = "add"]
    /\ UNCHANGED <<agents, messages, mu, begun, last, calls>>
    /\ ConcFrame

\* Transfer: dst.Balance.Add(dst.Balance, value).
TransferAdd(w) ==
    /\ writers[w].pc = "add"
    /\ accounts' = [accounts EXCEPT ![writers[w].args[2]].Balance =
                                        @ + writers[w].args[3]]
    /\ writers' = [writers EXCEPT ![w].pc = "unlock"]
    /\ UNCHANGED <<agents, messages, mu, begun, last, calls>>
    /\ ConcFrame

\* SetBalance: acc := s.getOrCreate(addr).
SetBalanceGet(w) ==
    /\ writers[w].pc = "get"
    /\ accounts' = getOrCreate(accounts, writers[w].args[1])
    /\ writers' = [writers EXCEPT ![w].pc = "set"]
    /\ UNCHANGED <<agents, messages, mu, begun, last, calls>>
    /\ ConcFrame

\* SetBalance: acc.Balance = new(big.Int).Set(balance).
SetBalanceSet(w) ==
    /\ writers[w].pc = "set"
    /\ accounts' = [accounts EXCEPT ![writers[w].args[1]].Balance =
                                        writers[w].args[2]]
    /\ writers' = [writers EXCEPT ![w].pc = "unlock"]
    /\ UNCHANGED <<agents, messages, mu, begun, last, calls>>
    /\ ConcFrame

\* RegisterAgent: the lookup and the one store into s.agents.
RegisterAgentStore(w) ==
    /\ writers[w].pc = "register"
    /\ LET r == RegisterAgent(Cur, writers[w].args[1], writers[w].args[2])
       IN  /\ agents' = r.st.agents
           /\ writers' = [writers EXCEPT ![w].pc = "unlock", ![w].err = r.err]
    /\ UNCHANGED <<accounts, messages, mu, begun, last, calls>>
    /\ ConcFrame

\* StoreMessage: s.messages = append(s.messages, msg).
StoreMessageAppend(w) ==
    /\ writers[w].pc = "append"
    /\ messages' = Append(messages, writers[w].args[1])
    /\ writers' = [writers EXCEPT ![w].pc = "count"]
    /\ UNCHANGED <<accounts, agents, mu, begun, last, calls>>
    /\ ConcFrame

\* StoreMessage: rec.MessageCount++ of the sender, if it is registered.
StoreMessageCount(w) ==
    /\ writers[w].pc = "count"
    /\ LET from == writers[w].args[1].From
       IN  agents' = IF from \in DOMAIN agents
                     THEN [agents EXCEPT ![from].MessageCount = (@ + 1) % Uint64Mod]
                     ELSE agents
    /\ writers' = [writers EXCEPT ![w].pc = "unlock"]
    /\ UNCHANGED <<accounts, messages, mu, begun, last, calls>>
    /\ ConcFrame

\* The deferred s.mu.Unlock(), and the return to the caller.
Unlock(w) ==
    /\ writers[w].pc = "unlock"
    /\ mu' = ""
    /\ writers' = [writers EXCEPT ![w].pc = "idle"]
    /\ last' = Call(writers[w].op, writers[w].args, writers[w].err, "nil")
    /\ UNCHANGED <<ledgerVars, begun, calls>>
    /\ ConcFrame

\* A Snapshot that does not take the lock.
ConcSnapshotUnlocked ==
    /\ last' = Call("Snapshot", <<>>, "nil", Snapshot(Cur))
    /\ UNCHANGED <<ledgerVars, lockVars, auxVars, calls>>
    /\ ConcFrame

\* Snapshot: s.mu.RLock(), which waits while a goroutine holds the write
\* lock; json.Marshal of the accounts and the agents; s.mu.RUnlock().  No
\* mutator gets the lock in between.
ConcSnapshot ==
    /\ mu = ""
    /\ last' = Call("Snapshot", <<>>, "nil", Snapshot(Cur))
    /\ UNCHANGED <<ledgerVars, lockVars, auxVars, calls>>
    /\ ConcFrame

ConcInit ==
    /\ accounts = ConcStart.accounts
    /\ agents = ConcStart.agents
    /\ messages = ConcStart.messages
    /\ ctx = Context(0, 0, 0)
    /\ InitPool /\ InitEngine /\ InitHistory /\ InitLock /\ InitAux

ConcNext ==
    \/ \E w \in Writers : Begin(w)
    \/ \E w \in Writers : Lock(w)
    \/ \E w \in Writers : TransferSrc(w)
    \/ \E w \in Writers : TransferDst(w)
    \/ \E w \in Writers : TransferSub(w)
    \/ \E w \in Writers : TransferAdd(w)
    \/ \E w \in Writers : SetBalanceGet(w)
    \/ \E w \in Writers : SetBalanceSet(w)
    \/ \E w \in Writers : RegisterAgentStore(w)
    \/ \E w \in Writers : StoreMessageAppend(w)
    \/ \E w \in Writers : StoreMessageCount(w)
    \/ \E w \in Writers : Unlock(w)
    \/ ConcSnapshot

ConcSpec == ConcInit /\ [][ConcNext]_vars

----------------------------------------------------------------------------
(* Claims on Snapshot under concurrent mutators, checked under ConcSpec.    *)

\* The positions of a mutator between its Lock and its Unlock.
Inside == {"src", "dst", "sub", "add", "get", "set", "register", "append",
           "count", "unlock"}

\* The ledger a mutator leaves and the error it returns when it runs alone
\* on ledger L.
Alone(L, op, args) ==
    CASE op = "Transfer" -> Transfer(L, args[1], args[2], args[3])
      [] op = "SetBalance" -> SetBalance(L, args[1], args[2])
      [] op = "RegisterAgent" -> RegisterAgent(L, args[1], args[2])
      [] op = "StoreMessage" -> StoreMessage(L, args[1])

(* C26: a mutator is part-way only while it holds the lock, and what it has
   done when it releases the lock is the whole operation as it runs alone;
   a Snapshot is taken only when no mutator is part-way and is the accounts
   and agents of the ledger of that moment, so it holds every operation
   entirely or not at all; when only transfers were called, the balances of
   a Snapshot add up to what they added up to at the start. *)
C26_SnapshotConsistent ==
    /\ [](\A w \in Writers : writers[w].pc \in Inside => mu = w)
    /\ [][/\ \A w \in Writers :
                (writers[w].pc = "unlock" /\ writers'[w].pc = "idle") =>
                    /\ Cur = Alone(writers[w].pre, writers[w].op, writers[w].args).st
                    /\ last'.err = Alone(writers[w].pre, writers[w].op,
                                         writers[w].args).err
          /\ (last'.op = "Snapshot" /\ last' # last) =>
                /\ \A w \in Writers : writers[w].pc \notin Inside
                /\ last'.val = Snapshot(Cur)
                /\ begun \subseteq {"Transfer"} =>
                      SumBalances(last'.val.Accounts) = SumBalances(ConcStart.accounts)]_vars

\* A Snapshot was taken after a transfer had moved 1 between A and B, while
\* another goroutine was waiting to run a second transfer.
C26_Witness ==
    /\ last.op = "Snapshot"
    /\ begun = {"Transfer"}
    /\ last.val.Accounts # ConcStart.accounts
    /\ SumBalances(last.val.Accounts) = SumBalances(ConcStart.accounts)
    /\ \E w \in Writers : writers[w].pc = "lock"

----------------------------------------------------------------------------
(* ReplaySpec: two nodes, each with its own Ledger and its own AVM, that    *)
(* start from equal ledgers and apply the same transactions with the same   *)
(* contexts, each at its own pace.                                          *)

\* The ledgers the two nodes start from.
ReplayStarts == {NewStateDB, ConcStart}

\* The transactions replayed: transfers that succeed and fail, of a
\* negative value, registrations, a message, an unhandled type.
ReplayTxs ==
    {Tx(TxTransfer, "A", "B", 1, 21000, 1, 0, "null", ""),
     Tx(TxTransfer, "B", "A", 3, 21000, 1, 0, "null", ""),
     Tx(TxTransfer, "A", "A", -1, 21000, 1, 0, "null", ""),
     NewAgentRegisterTx("A", [ID |-> "did:agc:0xabc", Controller |-> "A"], 0, 1),
     NewAgentRegisterTx("A", [ID |-> "did:agc:0xdef", Controller |-> "A"], 0, 1),
     Tx(TxAgentMessage, "A", "", 0, 50000, 1, 0, "null", ""),
     Tx(TxCallContract, "A", "B", 0, 100000, 1, 0, "null", "")}

\* The contexts of the replay: too little gas for a registration, and
\* enough.
ReplayContexts == {Context(gl, 0, 1) : gl \in {GasTransfer, GasAgentRegister}}

ReplayFrame == UNCHANGED <<poolVars, engineVars, lockVars, held, avm, last, calls>>

\* The next transaction of the block being replayed, and its context.
ReplayNext ==
    /\ Len(replay.log) < MaxReplay
    /\ \E tx \in ReplayTxs, c \in ReplayContexts :
        replay' = [replay EXCEPT !.log = Append(@, [ctx |-> c, tx |-> tx])]
    /\ UNCHANGED <<ledgerVars, ctx>>
    /\ ReplayFrame

\* This node applies the next transaction to its ledger.
ReplayApply ==
    /\ replay.done < Len(replay.log)
    /\ LET in == replay.log[replay.done + 1]
           r == ApplyTransaction(in.ctx, Cur, in.tx)
       IN  /\ SetLedger(r.st)
           /\ ctx' = r.ctx
           /\ replay' = [replay EXCEPT !.done = @ + 1, !.errs = Append(@, r.err)]
    /\ ReplayFrame

\* A node that goes on with the context the last transaction left.
ReplayApplyOtherCarries ==
    /\ replay.other.done < Len(replay.log)
    /\ LET in == replay.log[replay.other.done + 1]
           c == [in.ctx EXCEPT !.GasUsed = replay.other.ctx.GasUsed]
           r == ApplyTransaction(c, replay.other.st, in.tx)
       IN  replay' = [replay EXCEPT !.other =
                         Node(r.st, r.ctx, @.done + 1, Append(@.errs, r.err))]
    /\ UNCHANGED <<ledgerVars, ctx>>
    /\ ReplayFrame

\* The other node applies the next transaction to its ledger.
ReplayApplyOther ==
    /\ replay.other.done < Len(replay.log)
    /\ LET in == replay.log[replay.other.done + 1]
           r == ApplyTransaction(in.ctx, replay.other.st, in.tx)
       IN  replay' = [replay EXCEPT !.other =
                         Node(r.st, r.ctx, @.done + 1, Append(@.errs, r.err))]
    /\ UNCHANGED <<ledgerVars, ctx>>
    /\ ReplayFrame

ReplayInit ==
    /\ \E L \in ReplayStarts :
        /\ accounts = L.accounts
        /\ agents = L.agents
        /\ messages = L.messages
        /\ replay = Replay(<<>>, 0, <<>>, Node(L, Context(0, 0, 0), 0, <<>>))
    /\ ctx = Context(0, 0, 0)
    /\ held = NoAccount
    /\ avm = NoRun
    /\ InitPool /\ InitEngine /\ InitHistory /\ InitLock

ReplayStep ==
    \/ ReplayNext
    \/ ReplayApply
    \/ ReplayApplyOther

ReplaySpec == ReplayInit /\ [][ReplayStep]_vars

----------------------------------------------------------------------------
(* Claims on replay, checked under ReplaySpec.                              *)

(* C31: two nodes that start from equal ledgers and apply the same
   transactions with the same contexts return the same results, one by one,
   and whenever they have applied the same number of transactions their
   ledgers and the gas they counted are equal. *)
C31_Determinism ==
    LET n == Min(replay.done, replay.other.done)
    IN  /\ SubSeq(replay.errs, 1, n) = SubSeq(replay.other.errs, 1, n)
        /\ (replay.done = replay.other.done) =>
              /\ replay.other.st = Cur
              /\ replay.done > 0 => replay.other.ctx = ctx

\* Both nodes applied two transactions, one that failed and one that
\* changed the ledger.
C31_Witness ==
    /\ replay.done = 2
    /\ replay.other.done = 2
    /\ replay.other.errs[1] # "nil"
    /\ replay.other.errs[2] = "nil"
    /\ replay.errs = replay.other.errs
    /\ Cur \notin ReplayStarts

----------------------------------------------------------------------------
(* GasSpec: calls of UseGas and GasLeft on one ExecutionContext.            *)

\* Gas limits and amounts, up to the largest uint64.
GasSpecLimits == {0, 100, Uint64Mod - 1}

GasSpecAmounts == {0, 1, 50, 100, Uint64Mod - 50, Uint64Mod - 1}

GasCall ==
    /\ calls < MaxCalls
    /\ calls' = calls + 1
    /\ UNCHANGED <<ledgerVars, poolVars, engineVars, lockVars, auxVars>>

DoUseGas ==
    /\ GasCall
    /\ \E amount \in GasSpecAmounts :
        LET r == UseGas(ctx, amount)
        IN  /\ ctx' = r.ctx
            /\ last' = Call("UseGas", <<amount>>, r.err, "nil")

DoGasLeft ==
    /\ GasCall
    /\ last' = Call("GasLeft", <<>>, "nil", GasLeft(ctx))
    /\ UNCHANGED ctx

\* A new context of some gas limit: nothing used.
GasInit ==
    /\ accounts = NewStateDB.accounts
    /\ agents = NewStateDB.agents
    /\ messages = NewStateDB.messages
    /\ \E gl \in GasSpecLimits : ctx = Context(gl, 0, 1)
    /\ InitPool /\ InitEngine /\ InitHistory /\ InitLock /\ InitAux

GasNext ==
    \/ DoUseGas
    \/ DoGasLeft

GasSpec == GasInit /\ [][GasNext]_vars

----------------------------------------------------------------------------
(* Claims on gas metering, checked under GasSpec.                           *)

(* C32 as stated: UseGas(amount) fails with OutOfGas exactly when gasUsed +
   amount, taken as unbounded integers, exceeds gasLimit, also when the
   64-bit sum wraps around, and then leaves gasUsed as it was; otherwise it
   adds amount to gasUsed; so gasUsed <= gasLimit always, and GasLeft is
   gasLimit - gasUsed. *)
C32_UseGas ==
    /\ [](ctx.GasUsed <= ctx.GasLimit)
    /\ [][/\ (last'.op = "UseGas" /\ calls' # calls) =>
               LET amount == last'.args[1]
               IN  /\ (last'.err = "ErrOutOfGas") <=>
                          (ctx.GasUsed + amount > ctx.GasLimit)
                   /\ last'.err \in {"nil", "ErrOutOfGas"}
                   /\ (last'.err = "ErrOutOfGas") => (ctx' = ctx)
                   /\ (last'.err = "nil") =>
                          (ctx' = [ctx EXCEPT !.GasUsed = @ + amount])
          /\ (last'.op = "GasLeft" /\ calls' # calls) =>
               (last'.val = ctx.GasLimit - ctx.GasUsed /\ ctx' = ctx)]_vars

----------------------------------------------------------------------------
(* RewardSpec: the production loop, and a caller that transfers to and from *)
(* the proposer's account while the loop runs.                              *)

\* The proposer's account and one other account.
RewardAddrs == {"V1", "A"}

\* StateDB.Transfer, called by another goroutine than the loop.
RewardTransfer ==
    /\ Running
    /\ calls < MaxCalls
    /\ calls' = calls + 1
    /\ \E from \in RewardAddrs, to \in RewardAddrs :
        LET r == Transfer(Cur, from, to, 1)
        IN  /\ SetLedger(r.st)
            /\ last' = Call("Transfer", <<from, to, 1>>, r.err, "nil")
    /\ UNCHANGED <<ctx, poolVars, engineVars, lockVars, auxVars>>

RewardInit == Init

RewardNext ==
    \/ Start
    \/ LoopTick
    \/ LoopRecv
    \/ LoopBuild
    \/ LoopRewardRead
    \/ LoopRewardWrite
    \/ LoopAnnounce
    \/ Receive
    \/ RewardTransfer

RewardSpec == RewardInit /\ [][RewardNext]_vars

----------------------------------------------------------------------------
(* Claims on the reward credit, checked under RewardSpec.                   *)

(* C33 as stated: with transfers to and from the proposer's account running
   beside the loop, no update is lost: whenever no credit is under way the
   total supply is the rewards of the blocks built (the ledger starts
   empty), and the proposer holds those rewards less what the transfers
   moved to the other account. *)
C33_NoLostUpdate ==
    (loop.pc \notin {"reward", "credit"}) =>
        /\ SumBalances(accounts) = BlockReward * BaseUnit * height
        /\ BalanceOf(accounts, "V1") =
              BlockReward * BaseUnit * height - BalanceOf(accounts, "A")

----------------------------------------------------------------------------
(* AliasSpec: a caller that keeps the *Account GetAccount returned, reads   *)
(* and writes its Balance, while Transfer and SetBalance run on the ledger. *)

\* The account a held pointer points to: the ledger's own account when
\* GetAccount found it stored, else the account GetAccount made.
Pointee(h) ==
    IF h[1].stored
    THEN [h[1] EXCEPT !.Balance = accounts[h[1].Address].Balance,
                      !.Nonce = accounts[h[1].Address].Nonce]
    ELSE h[1]

AliasCall ==
    /\ calls < MaxCalls + 1
    /\ calls' = calls + 1
    /\ UNCHANGED <<ctx, poolVars, engineVars, lockVars, replay, avm>>

\* acc := stateDB.GetAccount(addr), as the RPC handler getBalance does.
AliasGetAccount ==
    /\ AliasCall
    /\ \E addr \in Addrs :
        /\ held' = <<GetAccount(Cur, addr)>>
        /\ last' = Call("GetAccount", <<addr>>, "nil", GetAccount(Cur, addr))
    /\ UNCHANGED ledgerVars

AliasTransfer ==
    /\ AliasCall
    /\ \E from \in Addrs, to \in Addrs :
        LET r == Transfer(Cur, from, to, 1)
        IN  /\ SetLedger(r.st)
            /\ last' = Call("Transfer", <<from, to, 1>>, r.err, "nil")
    /\ UNCHANGED held

AliasSetBalance ==
    /\ AliasCall
    /\ \E addr \in Addrs :
        LET r == SetBalance(Cur, addr, 2)
        IN  /\ SetLedger(r.st)
            /\ last' = Call("SetBalance", <<addr, 2>>, r.err, "nil")
    /\ UNCHANGED held

\* acc.Balance, read through the pointer.
AliasRead ==
    /\ AliasCall
    /\ held # NoAccount
    /\ last' = Call("acc.Balance", <<>>, "nil", Pointee(held).Balance)
    /\ UNCHANGED <<ledgerVars, held>>

\* acc.Balance = 7, written through the pointer.
AliasWrite ==
    /\ AliasCall
    /\ held # NoAccount
    /\ IF held[1].stored
       THEN /\ accounts' = [accounts EXCEPT ![held[1].Address].Balance = 7]
            /\ UNCHANGED held
       ELSE /\ held' = <<[held[1] EXCEPT !.Balance = 7]>>
            /\ UNCHANGED accounts
    /\ last' = Call("acc.Balance=", <<7>>, "nil", "nil")
    /\ UNCHANGED <<agents, messages>>

AliasInit == Init

AliasNext ==
    \/ AliasGetAccount
    \/ AliasTransfer
    \/ AliasSetBalance
    \/ AliasRead
    \/ AliasWrite

AliasSpec == AliasInit /\ [][AliasNext]_vars

----------------------------------------------------------------------------
(* Claims on the Account GetAccount returns, checked under AliasSpec.       *)

(* C34 as stated: the Account GetAccount returned is a value of that moment:
   the balance read through it later is the balance it had when GetAccount
   returned (or the one the holder wrote to it), whatever Transfer and
   SetBalance did since, and a write through it leaves the ledger as it
   was. *)
C34_PointInTime ==
    [][/\ (last'.op = "acc.Balance" /\ calls' # calls) =>
            last'.val = held[1].Balance
       /\ (last'.op = "acc.Balance=" /\ calls' # calls) =>
            UNCHANGED ledgerVars]_vars

----------------------------------------------------------------------------
(* StopLive: EngineLive where, in addition, the outer select of runProposer
   does not pass over its quit case forever: a select with several ready
   cases takes one of them at random, and between two ticks the quit case
   is the only ready one.                                                   *)
StopLive ==
    /\ EngineLive
    /\ SF_vars(LoopQuit)

(* C35: Stop is cooperative and effective.  The loop returns only from its
   outer select, never out of the middle of a tick (receive, build, reward,
   announce); once it has returned it stays returned and builds no block,
   moves neither the height nor the tip and announces nothing; and once
   Stop has been called while the loop runs, the loop eventually returns
   (or the process has died). *)
C35_StopCooperative ==
    /\ [][/\ (loop.pc # "exited" /\ loop'.pc = "exited") =>
                (loop.pc = "select" /\ quit)
          /\ (loop.pc = "exited") =>
                /\ loop'.pc = "exited"
                /\ produced' = produced
                /\ height' = height
                /\ tip' = tip
                /\ Len(blockCh') <= Len(blockCh)]_vars
    /\ (quit /\ loop.pc \notin {"idle", "exited"}) ~> (crashed \/ loop.pc = "exited")

\* C35 witness: Stop was called, the loop has returned after building two
\* blocks, the last of which it announced, and the process is alive.
C35_Witness ==
    /\ quit
    /\ ~crashed
    /\ loop.pc = "exited"
    /\ Len(produced) = 2
    /\ blockCh # <<>>
    /\ blockCh[Len(blockCh)] = produced[2]

----------------------------------------------------------------------------
(* Claims on the Pool and the batches it hands out, checked under PoolSpec. *)

\* The contents the last Pop returned.
LastPopped == {Hash(results.sel[i]) : i \in 1..Len(results.sel)}

(* C36 as stated, for the batch the last Pop returned: an Add of content
   that this Pop returned is rejected, and the next Pop returns none of
   that content again. *)
C36_NoDoubleInclusion ==
    [][/\ (last'.op = "Add" /\ calls' # calls /\ Hash(last'.args[1]) \in LastPopped) =>
            (last'.err # "nil" /\ pool' = pool)
       /\ (last'.op = "Pop" /\ calls' # calls) =>
            \A i \in 1..Len(last'.val) : Hash(last'.val[i]) \notin LastPopped]_vars

----------------------------------------------------------------------------
(* Claims on the proposer, the genesis block and the lifecycle of the      *)
(* engine, checked under EngineSpec.                                       *)

\* The loop builds a block in this step.
BuildStep == Len(produced') = Len(produced) + 1

\* The block built in a BuildStep.
Built == produced'[Len(produced')]

(* C37 as stated: when the loop builds a block, the proposer the block
   names is in the validator registry with a stake of at least the minimum,
   and ValidateBlock of that block against the engine as it was before the
   block does not fail with UnknownValidator. *)
C37_RegisteredProposer ==
    [][BuildStep =>
        /\ Built.Header.ValidatorAddr \in DOMAIN validators
        /\ validators[Built.Header.ValidatorAddr].Stake >= MinStake
        /\ ValidateBlock(validators, height, tip, Built) # "ErrUnknownValidator"]_vars

(* C38 as stated: when the loop builds its first block, the engine's tip is
   the genesis block and its height is 0, and the block has height 1 and
   the hash of the genesis block as its previous hash. *)
C38_OnGenesis ==
    [][(BuildStep /\ produced = <<>>) =>
        /\ tip = Ptr(GenesisBlock)
        /\ height = 0
        /\ Built.Header.Height = 1
        /\ Built.Header.PrevHash = BlockHash(GenesisBlock)]_vars

(* C39 as stated: no call of Stop crashes the process, whether it is the
   first or a later one and whether Start was called or not; after it the
   stop signal is set, and a Stop that follows a Stop changes nothing. *)
C39_StopIdempotent ==
    [][(last'.op = "Stop" /\ last' # last) =>
        /\ ~crashed'
        /\ last'.err = "nil"
        /\ quit'
        /\ quit => UNCHANGED <<ledgerVars, ctx, poolVars, engineVars>>]_vars

----------------------------------------------------------------------------
(* StackSpec: one call of AVM.Execute on a new ledger, taken iteration by  *)
(* iteration of its loop, on every instruction stream of up to MaxCode     *)
(* opcodes.                                                                 *)

StackFrame == UNCHANGED <<poolVars, engineVars, lockVars, replay, held, last, calls>>

\* Execute is called: pc := 0, stack := empty.
StepCall ==
    /\ avm.status = "idle"
    /\ \E code \in Codes, gl \in ExecGasLimits, h \in Heights :
        /\ ctx' = Context(gl, 0, h)
        /\ avm' = NewRun(code, Context(gl, 0, h))
    /\ UNCHANGED ledgerVars
    /\ StackFrame

\* The loop condition pc < len(code) fails: return nil, nil.
StepEnd ==
    /\ avm.status = "running"
    /\ avm.pc > Len(avm.code)
    /\ avm' = [avm EXCEPT !.status = "returned", !.out = NoBytes, !.err = "nil"]
    /\ UNCHANGED <<ledgerVars, ctx>>
    /\ StackFrame

\* A precompile that reads the top of the stack and leaves it there.
StepPrecompileKeeps ==
    /\ avm.status = "running"
    /\ avm.pc <= Len(avm.code)
    /\ avm.code[avm.pc] \in Precompiles
    /\ LET stack == avm.stack
           args == IF stack # <<>> THEN <<stack[Len(stack)]>> ELSE NoBytes
           r == Precompile(avm.code[avm.pc], ctx, Cur, args)
       IN  /\ SetLedger(r.st)
           /\ ctx' = r.ctx
           /\ avm' = IF r.err # "nil"
                     THEN [avm EXCEPT !.pc = @ + 1, !.status = "returned",
                                      !.out = NoBytes, !.err = r.err]
                     ELSE [avm EXCEPT !.pc = @ + 1,
                                      !.stack = IF r.result # NoBytes
                                                THEN Append(stack, r.result[1])
                                                ELSE stack]
    /\ StackFrame

\* One iteration on an opcode that has a precompile: pop the argument if
\* the stack holds one, run the precompile, return its error or push its
\* result if it has one.
StepPrecompile ==
    /\ avm.status = "running"
    /\ avm.pc <= Len(avm.code)
    /\ avm.code[avm.pc] \in Precompiles
    /\ LET stack == avm.stack
           args == IF stack # <<>> THEN <<stack[Len(stack)]>> ELSE NoBytes
           rest == IF stack # <<>> THEN SubSeq(stack, 1, Len(stack) - 1) ELSE stack
           r == Precompile(avm.code[avm.pc], ctx, Cur, args)
       IN  /\ SetLedger(r.st)
           /\ ctx' = r.ctx
           /\ avm' = IF r.err # "nil"
                     THEN [avm EXCEPT !.pc = @ + 1, !.stack = rest,
                                      !.status = "returned",
                                      !.out = NoBytes, !.err = r.err]
                     ELSE [avm EXCEPT !.pc = @ + 1,
                                      !.stack = IF r.result # NoBytes
                                                THEN Append(rest, r.result[1])
                                                ELSE rest]
    /\ StackFrame

\* One iteration on an opcode that has no precompile: the switch returns.
StepStructural ==
    /\ avm.status = "running"
    /\ avm.pc <= Len(avm.code)
    /\ avm.code[avm.pc] \notin Precompiles
    /\ LET r == Structural(avm.code[avm.pc], avm.stack)
       IN  avm' = [avm EXCEPT !.pc = @ + 1, !.status = "returned",
                              !.out = r.out, !.err = r.err]
    /\ UNCHANGED <<ledgerVars, ctx>>
    /\ StackFrame

StackInit == Init

StackNext ==
    \/ StepCall
    \/ StepEnd
    \/ StepPrecompile
    \/ StepStructural

StackSpec == StackInit /\ [][StackNext]_vars

----------------------------------------------------------------------------
(* Claims on the operand stack of AVM.Execute, checked under StackSpec.     *)

\* The number of instructions Execute has executed.
Executed == IF avm.status = "idle" THEN 0 ELSE avm.pc - 1

\* This step is an iteration of the loop on an opcode that has a precompile.
PrecompileStep ==
    /\ avm.status = "running"
    /\ avm.pc <= Len(avm.code)
    /\ avm.code[avm.pc] \in Precompiles
    /\ avm' # avm

(* C40: in every state of a call of Execute the operand stack holds at most
   one element and at most len(code) instructions have been executed; an
   iteration on a precompile opcode takes at most one element off the stack,
   the top, and puts at most one on it; every iteration executes exactly one
   instruction, a call that has not returned can always take a step, and a
   call that has returned takes none; and the call returns what Execute
   returns for the stream, with the context and the ledger Execute leaves. *)
C40_StackDiscipline ==
    /\ [](Len(avm.stack) <= 1)
    /\ [](Executed <= Len(avm.code))
    /\ [](avm.status = "running" => ENABLED StackNext)
    /\ [](avm.status = "returned" =>
            LET r == Execute(avm.start, NewStateDB, avm.code)
            IN  /\ ~ENABLED StackNext
                /\ avm.out = r.out /\ avm.err = r.err /\ avm.stack = r.stack
                /\ Executed = Len(r.steps)
                /\ ctx = r.ctx /\ Cur = r.st)
    /\ [][/\ PrecompileStep =>
               LET popped == IF avm.stack = <<>> THEN 0 ELSE 1
                   kept == Len(avm.stack) - popped
               IN  /\ Len(avm'.stack) \in {kept, kept + 1}
                   /\ SubSeq(avm'.stack, 1, kept) = SubSeq(avm.stack, 1, kept)
          /\ (avm.status = "running" /\ avm' # avm) =>
               \/ avm'.pc = avm.pc + 1
               \/ avm.pc > Len(avm.code) /\ avm'.status = "returned" /\ avm'.pc = avm.pc]_vars

\* C40 witness: the second receipt opcode took the result of the first off
\* the stack and pushed its own, and Return yielded it after three
\* instructions.
C40_Witness ==
    /\ avm.status = "returned"
    /\ avm.code = <<OpInferProve, OpInferProve, OpReturn>>
    /\ avm.stack = <<<<1>>>>
    /\ avm.out = <<<<1>>>>
    /\ avm.err = "nil"
    /\ Executed = 3
    /\ ctx.GasUsed = 2 * GasInferenceReceipt

====
